---- MODULE Spec2Model ----
(***************************************************************************)
(* Horizontal-curve resolver of the transportation workbench               *)
(* (transportationwb/Geometry/Arc.py): get_arc_parameters and its stages.  *)
(*                                                                         *)
(* Values.  A Python value that is a float or None is a triple             *)
(* <<kind, n, d>>: kind "None" (absent), "NaN" (IEEE not-a-number) or      *)
(* "Num" (the exact rational n/d, d > 0, in lowest terms).  Angles are     *)
(* numbers in radians; the angles that occur are integer combinations of   *)
(* HALF_PI and ALPHA = atan(3/4), for which sine and cosine are rational,  *)
(* so that sqrt, acos, sin, cos and tan are computed exactly.  Vectors are *)
(* <<kind, x, y>> with kind "None" or "Vec"; every z coordinate of a       *)
(* horizontal curve is 0 and is left out.                                  *)
(***************************************************************************)
EXTENDS Integers, Sequences, FiniteSets, TLC

\* ------------------------------------------------------------------------
\* Bounds of the checked input space
\* ------------------------------------------------------------------------
\* incoming bearings tried: b * HALF_PI for b in 0 .. NumBearings-1
NumBearings == 3
\* radii tried: 1 .. MaxRadius (length units)
MaxRadius == 1
\* central angles and angle steps discretized: k * ALPHA for k in 1 .. MaxSteps
MaxSteps == 3

\* ------------------------------------------------------------------------
\* Exact arithmetic on floats-or-None
\* ------------------------------------------------------------------------
Abs(i) == IF i < 0 THEN -i ELSE i

RECURSIVE Gcd(_, _)
Gcd(a, b) == IF b = 0 THEN a ELSE Gcd(b, a % b)

None == <<"None", 0, 1>>
NaN == <<"NaN", 0, 1>>

\* the rational n/d in lowest terms (d # 0)
Rat(n, d) ==
    LET g == Gcd(Abs(n), Abs(d))
        s == IF d < 0 THEN -1 ELSE 1
    IN  <<"Num", (s * n) \div g, (s * d) \div g>>

Whole(i) == <<"Num", i, 1>>

IsNone(v) == v[1] = "None"
IsNaN(v) == v[1] = "NaN"
IsNum(v) == v[1] = "Num"

\* bool(v) of Python: None and 0.0 are false, every other float (NaN too) is true
Truthy(v) == IsNaN(v) \/ (IsNum(v) /\ v[2] # 0)

\* float arithmetic: NaN is contagious
Add(a, b) ==
    IF IsNaN(a) \/ IsNaN(b) THEN NaN
    ELSE LET g == Gcd(a[3], b[3])
         IN  Rat(a[2] * (b[3] \div g) + b[2] * (a[3] \div g), (a[3] \div g) * b[3])

Neg(a) == IF IsNaN(a) THEN NaN ELSE <<"Num", -a[2], a[3]>>

Sub(a, b) == Add(a, Neg(b))

Mul(a, b) ==
    IF IsNaN(a) \/ IsNaN(b) THEN NaN
    ELSE LET g1 == Gcd(Abs(a[2]), b[3])
             g2 == Gcd(Abs(b[2]), a[3])
         IN  Rat((a[2] \div g1) * (b[2] \div g2), (a[3] \div g2) * (b[3] \div g1))

\* numpy.float64 division: 0.0 / 0.0 is NaN (a warning, no exception); the only
\* zero divisors that occur divide a zero dot product
Div(a, b) ==
    IF IsNaN(a) \/ IsNaN(b) THEN NaN
    ELSE IF b[2] = 0 THEN NaN
    ELSE Mul(a, Rat(b[3], b[2]))

\* a < b on floats: false when either is NaN
Less(a, b) ==
    /\ IsNum(a)
    /\ IsNum(b)
    /\ LET g == Gcd(a[3], b[3])
       IN  a[2] * (b[3] \div g) < b[2] * (a[3] \div g)

RECURSIVE ISqrt(_, _)
ISqrt(n, r) == IF r * r >= n THEN r ELSE ISqrt(n, r + 1)

\* math.sqrt on the squares of rationals
Sqrt(a) ==
    IF IsNaN(a) THEN NaN
    ELSE Rat(ISqrt(a[2], 0), ISqrt(a[3], 0))

IsSquare(a) == IsNum(a) /\ a[2] >= 0 /\ Sqrt(a)[2] * Sqrt(a)[2] = a[2]
                        /\ Sqrt(a)[3] * Sqrt(a)[3] = a[3]

\* ------------------------------------------------------------------------
\* Constants (ScriptedObjectSupport/Utils.py, class Constants)
\* ------------------------------------------------------------------------
\* math.pi / 2.0, to four decimals
HALF_PI == Rat(3927, 2500)
PI == Mul(Whole(2), HALF_PI)
TWO_PI == Mul(Whole(4), HALF_PI)
TOLERANCE == Rat(1, 10000)

\* atan(3/4), to four decimals: the angle of the 3-4-5 triangle
ALPHA == Rat(1287, 2000)

\* ------------------------------------------------------------------------
\* Trigonometry on the angle lattice p * HALF_PI + k * ALPHA
\* ------------------------------------------------------------------------
AngleOf(p, k) == Add(Mul(Whole(p), HALF_PI), Mul(Whole(k), ALPHA))

\* a * 10000 for an angle a whose denominator divides 10000
Ticks(a) == a[2] * (10000 \div a[3])

\* the k of a lattice angle: what is left after k * ALPHA is whole quarter turns
LatticeK(a) == {k \in -4 .. 4 : (Ticks(a) - 6435 * k) % 15708 = 0}

InLattice(a) == IsNum(a) /\ 10000 % a[3] = 0 /\ LatticeK(a) # {}

\* <<p, k>> with a = p * HALF_PI + k * ALPHA
DecodeWith(a, k) == <<(Ticks(a) - 6435 * k) \div 15708, k>>
Decode(a) == DecodeWith(a, CHOOSE k \in LatticeK(a) : TRUE)

\* <<cos(k * ALPHA), sin(k * ALPHA)>> for k = 0 .. 4: the powers of (4 + 3i) / 5
CosSinPos ==
    << <<Whole(1), Whole(0)>>,
       <<Rat(4, 5), Rat(3, 5)>>,
       <<Rat(7, 25), Rat(24, 25)>>,
       <<Rat(-44, 125), Rat(117, 125)>>,
       <<Rat(-527, 625), Rat(336, 625)>> >>

CosSinK(k) ==
    IF k >= 0 THEN CosSinPos[k + 1]
    ELSE <<CosSinPos[1 - k][1], Neg(CosSinPos[1 - k][2])>>

\* <<cos, sin>> a quarter turns further
Quarter(q, cs) ==
    CASE q = 0 -> cs
      [] q = 1 -> <<Neg(cs[2]), cs[1]>>
      [] q = 2 -> <<Neg(cs[1]), Neg(cs[2])>>
      [] q = 3 -> <<cs[2], Neg(cs[1])>>

\* <<cos, sin>> of p * HALF_PI + k * ALPHA
CosSin(p, k) == Quarter(p % 4, CosSinK(k))
CosSinAt(pk) == CosSin(pk[1], pk[2])

Cos(a) == IF IsNaN(a) THEN NaN ELSE CosSinAt(Decode(a))[1]
Sin(a) == IF IsNaN(a) THEN NaN ELSE CosSinAt(Decode(a))[2]
Tan(a) == Div(Sin(a), Cos(a))

\* the lattice angles of [0, pi] with their cosines
AcosTable ==
    {<<CosSinAt(pk)[1], AngleOf(pk[1], pk[2])>> :
        pk \in {qk \in (0 .. 2) \X (-4 .. 4) :
                    /\ ~Less(AngleOf(qk[1], qk[2]), Whole(0))
                    /\ ~Less(PI, AngleOf(qk[1], qk[2]))}}

HasAcos(c) == \E e \in AcosTable : e[1] = c

\* math.acos: NaN for NaN
Acos(c) == IF IsNaN(c) THEN NaN ELSE (CHOOSE e \in AcosTable : e[1] = c)[2]

\* ------------------------------------------------------------------------
\* Vectors (FreeCAD App.Vector, z = 0)
\* ------------------------------------------------------------------------
NoVec == <<"None", Whole(0), Whole(0)>>
Vec(x, y) == <<"Vec", x, y>>
ZeroVec == Vec(Whole(0), Whole(0))
UP == Vec(Whole(0), Whole(1))

IsVec(v) == v[1] = "Vec"
VAdd(a, b) == Vec(Add(a[2], b[2]), Add(a[3], b[3]))
VSub(a, b) == Vec(Sub(a[2], b[2]), Sub(a[3], b[3]))
VMul(a, s) == Vec(Mul(a[2], s), Mul(a[3], s))
Dot(a, b) == Add(Mul(a[2], b[2]), Mul(a[3], b[3]))
CrossZ(a, b) == Sub(Mul(a[2], b[3]), Mul(a[3], b[2]))

\* ------------------------------------------------------------------------
\* transportationwb/Geometry/Support.py
\* ------------------------------------------------------------------------
\* safe_sub(lhs, rhs, True): None when a point is absent
safe_sub(lhs, rhs) ==
    IF ~IsVec(lhs) \/ ~IsVec(rhs) THEN NoVec ELSE VSub(lhs, rhs)

\* Support.get_rotation: the rotation from in_vector to out_vector as the sign of
\* the cross product, 1 = clockwise, -1 = counterclockwise, 0 = undetermined
\* (a vector absent or of zero length); parallel vectors count as -1
SupportGetRotation(in_vector, out_vector) ==
    IF ~IsVec(in_vector) \/ ~IsVec(out_vector) THEN Whole(0)
    ELSE IF in_vector = ZeroVec \/ out_vector = ZeroVec THEN Whole(0)
    ELSE IF Less(CrossZ(in_vector, out_vector), Whole(0)) THEN Whole(1)
    ELSE Whole(-1)

\* |a - b| < TOLERANCE on floats; false for None and for NaN
Close(a, b) ==
    /\ IsNum(a)
    /\ IsNum(b)
    /\ Less(Sub(a, b), TOLERANCE)
    /\ Less(Sub(b, a), TOLERANCE)

\* Support.within_tolerance(lhs, rhs)
within_tolerance(lhs, rhs) == Close(lhs, rhs)

\* Support.within_tolerance(list): all values mutually within tolerance
within_tolerance_list(vals) ==
    \A i \in 1 .. Len(vals) : \A j \in 1 .. Len(vals) :
        i < j => Close(vals[i], vals[j])

\* Support.vector_from_angle: the unit vector of a bearing
vector_from_angle(angle) == Vec(Sin(angle), Cos(angle))

\* ------------------------------------------------------------------------
\* Arc.py: the formula tables (_create_geo_func)
\* ------------------------------------------------------------------------
\* _GEO.FUNC[i][j](x) for the rows 0 .. 5: the central angle from the angle
\* between vector i and vector j; the entries never assigned return 0.0
FUNC(i, j, x) ==
    CASE (i = 1 /\ j = 0) \/ (i = 3 /\ j = 2) -> x
      [] (i = 5 /\ j = 0) \/ (i = 4 /\ j = 3) -> Sub(Mul(Whole(2), x), PI)
      [] (i = 5 /\ j = 1) \/ (i = 4 /\ j = 2) -> Sub(PI, Mul(Whole(2), x))
      [] i = 3 /\ j = 0 -> Sub(x, HALF_PI)
      [] i = 2 /\ j = 1 -> Sub(HALF_PI, x)
      [] (i = 4 /\ j = 0) \/ (i = 4 /\ j = 1) \/ (i = 5 /\ j = 2) \/ (i = 5 /\ j = 3)
            -> Mul(Whole(2), x)
      [] OTHER -> Whole(0)

\* _GEO.FUNC[6][j](x, delta, rot): the incoming bearing from the bearing of vector j
FUNC6(j, x, delta, rot) ==
    CASE j = 0 -> Add(x, Mul(rot, HALF_PI))
      [] j = 1 -> Add(x, Mul(rot, Add(Neg(delta), HALF_PI)))
      [] j = 2 -> x
      [] j = 3 -> Sub(x, Mul(rot, delta))
      [] j = 4 -> Add(x, Mul(rot, Sub(HALF_PI, Div(delta, Whole(2)))))
      [] j = 5 -> Sub(x, Mul(rot, Div(delta, Whole(2))))

\* ------------------------------------------------------------------------
\* Arc.py: get_scalar_matrix
\* ------------------------------------------------------------------------
\* mat_list: the six vectors, [0,0,0] for an absent one, and the UP vector
mat_list(vecs) ==
    [i \in 0 .. 6 |-> IF i = 6 THEN UP
                      ELSE IF IsVec(vecs[i]) THEN vecs[i] ELSE ZeroVec]

\* rot_list: the side of UP each vector lies on
rot_list(vecs) ==
    [i \in 0 .. 6 |-> IF i < 6 THEN SupportGetRotation(UP, vecs[i]) ELSE Whole(0)]

\* mat * mat.T
Gram(vecs) ==
    [i \in 0 .. 6 |-> [j \in 0 .. 6 |-> Dot(mat_list(vecs)[i], mat_list(vecs)[j])]]

\* the matrix after the magnitudes replaced the diagonal (rows 0 .. 5)
WithMagnitudes(g) ==
    [i \in 0 .. 6 |-> [j \in 0 .. 6 |->
        IF i = j /\ i < 6 THEN Sqrt(g[i][i]) ELSE g[i][j]]]

NoMatrix == [kind |-> "None", A |-> <<>>]

\* line 98, `result.shape[0] != result.shape[1] != 6`: Python chains the two
\* comparisons with `and`
ShapeRejected(shape) == shape[1] # shape[2] /\ shape[2] # 6

get_scalar_matrix(vecs) ==
    LET result == Gram(vecs)
        rows == Cardinality(DOMAIN result)
        cols == Cardinality(DOMAIN result[0])
        m == WithMagnitudes(result)
        angle(i, j) == Acos(Div(m[i][j], Mul(m[i][i], m[j][j])))
        signed(j) == Mul(angle(6, j), rot_list(vecs)[j])
    IN  IF ShapeRejected(<<rows, cols>>) THEN NoMatrix
        ELSE [kind |-> "matrix",
              A |-> [i \in 0 .. 6 |-> [j \in 0 .. 6 |->
                        IF j >= i THEN m[i][j]
                        ELSE IF i < 6 THEN FUNC(i, j, angle(i, j))
                        ELSE IF Less(signed(j), Whole(0)) THEN Add(signed(j), TWO_PI)
                        ELSE signed(j)]]]

\* ------------------------------------------------------------------------
\* Arc.py: the resolver stages.  A stage returns [kind, val]: kind "dict" with
\* the dictionary val, kind "None", or kind "raise" (an exception leaves it)
\* ------------------------------------------------------------------------
Dict(d) == [kind |-> "dict", val |-> d]
NoResult == [kind |-> "None", val |-> <<>>]
Raised == [kind |-> "raise", val |-> <<>>]

\* dict.get(key): None for a missing key
Get(d, key) == IF key \in DOMAIN d THEN d[key] ELSE None

\* `not _p` of Python for a stage result: None and the empty dictionary
Falsy(p) == p.kind = "None" \/ (p.kind = "dict" /\ DOMAIN p.val = {})

\* [_v for _v in lengths[_i*2:(_i+1)*2] if _v]
TruthyPair(lengths, i) == SelectSeq(<<lengths[2 * i], lengths[2 * i + 1]>>, Truthy)

\* the first loop of get_lengths without lines 212-213: the calculated value is
\* taken even when the caller's value agrees with it
PairParamCalculated(lengths, i, user) ==
    LET s == TruthyPair(lengths, i)
    IN  IF s = <<>> THEN user ELSE s[1]

\* one pass of the first loop of get_lengths: the value params[_i] ends with
PairParam(lengths, i, user) ==
    LET s == TruthyPair(lengths, i)
    IN  IF s = <<>> THEN user
        ELSE IF Truthy(s[1]) /\ within_tolerance(s[1], user) THEN user
        ELSE s[1]

\* the pair was calculated twice and the two magnitudes differ
PairDisagrees(lengths, i) ==
    LET s == TruthyPair(lengths, i)
    IN  s # <<>> /\ (\A k \in 1 .. Len(s) : Truthy(s[k])) /\ ~within_tolerance_list(s)

\* one pass of the second loop of get_lengths (middle and chord)
SingleParam(length, user) ==
    IF Truthy(length) /\ within_tolerance(length, user) THEN user ELSE length

\* get_lengths without line 215: a calculated radius or tangent never replaces
\* the caller's value
get_lengths_keep_user(arc, mat) ==
    LET lengths == [i \in 0 .. 6 |-> mat.A[i][i]]
    IN  IF PairDisagrees(lengths, 0) THEN NoResult
        ELSE IF PairDisagrees(lengths, 1) THEN NoResult
        ELSE Dict([k \in {"Radius", "Tangent", "Chord"} |->
                CASE k = "Radius" -> Get(arc, "Radius")
                  [] k = "Tangent" -> Get(arc, "Tangent")
                  [] k = "Chord" -> SingleParam(lengths[5], Get(arc, "Chord"))])

get_lengths(arc, mat) ==
    LET lengths == [i \in 0 .. 6 |-> mat.A[i][i]]
    IN  IF PairDisagrees(lengths, 0) THEN NoResult
        ELSE IF PairDisagrees(lengths, 1) THEN NoResult
        ELSE Dict([k \in {"Radius", "Tangent", "Chord"} |->
                CASE k = "Radius" -> PairParam(lengths, 0, Get(arc, "Radius"))
                  [] k = "Tangent" -> PairParam(lengths, 1, Get(arc, "Tangent"))
                  [] k = "Chord" -> SingleParam(lengths[5], Get(arc, "Chord"))])

\* the columns of row i whose entry passes `if Utils.to_float(...)`
RowHits(mat, i) == {j \in 0 .. i - 1 : Truthy(mat.A[i][j])}

SetMin(S) == CHOOSE x \in S : \A y \in S : x <= y

\* the loops of get_delta from row i on: the inner loop stops at the first hit of
\* its row, the outer loop goes on to the next row
RECURSIVE DeltaScan(_, _, _)
DeltaScan(mat, i, delta) ==
    IF i > 5 THEN delta
    ELSE DeltaScan(mat, i + 1,
                   IF RowHits(mat, i) = {} THEN delta
                   ELSE mat.A[i][SetMin(RowHits(mat, i))])

get_delta(arc, mat) ==
    LET delta == DeltaScan(mat, 1, Get(arc, "Delta"))
    IN  IF ~Truthy(delta) THEN NoResult
        ELSE Dict([k \in {"Delta"} |-> delta])

\* [_v for _v in vecs[lo .. hi] if _v and _v != App.Vector()]
PresentVecs(vecs, lo, hi) ==
    SelectSeq([n \in 1 .. (hi - lo + 1) |-> vecs[lo + n - 1]],
              LAMBDA v : IsVec(v) /\ v # ZeroVec)

get_rotation(arc, vecs) ==
    LET v1 == PresentVecs(vecs, 0, 2)
        v2 == PresentVecs(vecs, 3, 5)
    IN  IF ~(v1 # <<>> /\ v2 # <<>>)
        THEN Dict([k \in {"Direction"} |-> Get(arc, "Direction")])
        ELSE Dict([k \in {"Direction"} |-> SupportGetRotation(v1[1], v2[1])])

\* value if it passes `Utils.to_float(value)`, else the fallback
OrElse(value, fallback) == IF Truthy(value) THEN value ELSE fallback

\* lines 136-141: the candidates for the incoming bearing that pass to_float
BearingCandidates(mat, delta, rot) ==
    SelectSeq([n \in 1 .. 6 |-> FUNC6(n - 1, mat.A[6][n - 1], delta, rot)], Truthy)

\* lines 133 and 149-151: the calculated bearing unless the caller's confirms it
BearingInOf(arc, b) ==
    IF b # <<>> /\ ~within_tolerance(b[1], Get(arc, "BearingIn"))
    THEN b[1] ELSE Get(arc, "BearingIn")

\* lines 156-159
BearingOutOf(arc, b_out) ==
    IF ~within_tolerance(b_out, Get(arc, "BearingOut"))
    THEN b_out ELSE Get(arc, "BearingOut")

\* lines 161-183: the bearings of the radius, tangent and internal vectors
MatBearings(row, bearing_in, bearing_out, rad0, delta, rot) ==
    [Radius |-> <<rad0, OrElse(row[1], Add(rad0, Mul(rot, delta)))>>,
     Tangent |-> <<bearing_in, bearing_out>>,
     Internal |-> <<OrElse(row[4], Add(rad0, Mul(rot, Div(delta, Whole(2))))),
                    OrElse(row[5], Add(rad0, Mul(rot, Div(Add(PI, delta), Whole(2)))))>>]

\* lines 153-185, once bearing_in is settled
BearingsFrom(arc, mat, delta, rot, bearing_in, bearing_out) ==
    IF ~Truthy(bearing_in) THEN NoResult
    ELSE Dict([k \in {"BearingIn", "BearingOut", "Bearings"} |->
            CASE k = "BearingIn" -> bearing_in
              [] k = "BearingOut" -> bearing_out
              [] k = "Bearings" ->
                    MatBearings(mat.A[6], bearing_in, bearing_out,
                                OrElse(mat.A[6][0], Sub(bearing_in, Mul(rot, HALF_PI))),
                                delta, rot)])

BearingsWith(arc, mat, delta, rot, bearing_in) ==
    BearingsFrom(arc, mat, delta, rot, bearing_in,
                 BearingOutOf(arc, Add(bearing_in, Mul(delta, rot))))

\* get_bearings without lines 146-147: candidates that disagree are let through
get_bearings_unchecked(arc, mat, delta, rot) ==
    IF IsNone(rot) THEN Raised
    ELSE BearingsWith(arc, mat, delta, rot,
                      BearingInOf(arc, BearingCandidates(mat, delta, rot)))

\* rot = None raises TypeError in the first formula of line 139
get_bearings(arc, mat, delta, rot) ==
    IF IsNone(rot) THEN Raised
    ELSE IF /\ BearingCandidates(mat, delta, rot) # <<>>
            /\ ~within_tolerance_list(BearingCandidates(mat, delta, rot))
    THEN NoResult
    ELSE BearingsWith(arc, mat, delta, rot,
                      BearingInOf(arc, BearingCandidates(mat, delta, rot)))

\* the in-place assignments get_missing_parameters makes to new_arc
MissingFill(new_arc) ==
    LET radius == new_arc["Radius"]
        delta == new_arc["Delta"]
        half_delta == Div(delta, Whole(2))
        filled == [k \in {"Length", "External", "Middle"} |->
                    CASE k = "Length" -> Mul(radius, delta)
                      [] k = "External" ->
                            Mul(radius, Sub(Div(Whole(1), Cos(half_delta)), Whole(1)))
                      [] k = "Middle" -> Mul(radius, Sub(Whole(1), Cos(half_delta)))]
        tangent == [k \in {"Tangent"} |->
                      IF ~Truthy(Get(new_arc, "Tangent"))
                      THEN Mul(radius, Tan(half_delta)) ELSE new_arc["Tangent"]]
        chord == [k \in {"Chord"} |->
                      IF ~Truthy(Get(new_arc, "Chord"))
                      THEN Mul(Mul(Whole(2), radius), Sin(half_delta))
                      ELSE new_arc["Chord"]]
    IN  chord @@ tangent @@ filled @@ new_arc

MissingKeys == {"Chord", "Middle", "Tangent", "Length", "External"}

\* get_missing_parameters(arc, new_arc); same tells that both arguments are one
\* dictionary, so that arc is read after the assignments to new_arc
get_missing_parameters(arc, new_arc, same) ==
    IF IsNone(Get(new_arc, "Radius")) \/ IsNone(Get(new_arc, "Delta")) THEN NoResult
    ELSE LET filled == MissingFill(new_arc)
             existing == IF same THEN filled ELSE arc
         IN  Dict([k \in MissingKeys |->
                    IF within_tolerance(Get(existing, k), Get(filled, k))
                    THEN Get(existing, k) ELSE Get(filled, k)])

\* get_coordinates with the anchors tried in the order Start, Center, PI, End
get_coordinates_center_first(arc, points) ==
    LET vr == VMul(vector_from_angle(arc["Bearings"].Radius[1]), arc["Radius"])
        vt == VMul(vector_from_angle(arc["Bearings"].Tangent[1]), arc["Tangent"])
        vc == VMul(vector_from_angle(arc["Bearings"].Internal[2]), arc["Chord"])
        start == IF IsVec(points[0]) THEN points[0]
                 ELSE IF IsVec(points[2]) THEN VAdd(points[2], vr)
                 ELSE IF IsVec(points[3]) THEN VSub(points[3], vt)
                 ELSE IF IsVec(points[1]) THEN VSub(points[1], vc)
                 ELSE NoVec
    IN  IF ~IsVec(start) THEN NoResult
        ELSE Dict([k \in {"Start", "Center", "End", "PI"} |->
                CASE k = "Start" -> start
                  [] k = "Center" -> IF IsVec(points[2]) THEN points[2] ELSE VSub(start, vr)
                  [] k = "End" -> IF IsVec(points[1]) THEN points[1] ELSE VAdd(start, vc)
                  [] k = "PI" -> IF IsVec(points[3]) THEN points[3] ELSE VAdd(start, vt)])

get_coordinates(arc, points) ==
    LET vr == VMul(vector_from_angle(arc["Bearings"].Radius[1]), arc["Radius"])
        vt == VMul(vector_from_angle(arc["Bearings"].Tangent[1]), arc["Tangent"])
        vc == VMul(vector_from_angle(arc["Bearings"].Internal[2]), arc["Chord"])
        start == IF IsVec(points[0]) THEN points[0]
                 ELSE IF IsVec(points[3]) THEN VSub(points[3], vt)
                 ELSE IF IsVec(points[2]) THEN VAdd(points[2], vr)
                 ELSE IF IsVec(points[1]) THEN VSub(points[1], vc)
                 ELSE NoVec
    IN  IF ~IsVec(start) THEN NoResult
        ELSE Dict([k \in {"Start", "Center", "End", "PI"} |->
                CASE k = "Start" -> start
                  [] k = "Center" -> IF IsVec(points[2]) THEN points[2] ELSE VSub(start, vr)
                  [] k = "End" -> IF IsVec(points[1]) THEN points[1] ELSE VAdd(start, vc)
                  [] k = "PI" -> IF IsVec(points[3]) THEN points[3] ELSE VAdd(start, vt)])

\* the descriptor returned with the scratch entry left in
KeepBearings(d) == d

\* result.pop('Bearings')
PopBearings(d) == [k \in (DOMAIN d) \ {"Bearings"} |-> d[k]]

\* ------------------------------------------------------------------------
\* The input descriptors checked: the consistent arc of parameter_test, carried
\* to the angle lattice (Delta = 2 * ALPHA), with fields removed or altered
\* ------------------------------------------------------------------------
PointKeys == {"Start", "End", "Center", "PI"}
ScalarKeys == {"Radius", "Tangent", "Chord", "Middle", "External", "Length",
               "Delta", "BearingIn", "BearingOut", "Direction"}
ArcKeys == PointKeys \cup ScalarKeys

\* <<rot, b, r>>: Direction rot, BearingIn b * HALF_PI, Radius r.  With b = 0 a
\* calculated bearing is exactly 0.0 here and fails `if to_float(...)`, where
\* floating point may leave a tiny nonzero value
Bases == {<<rot, b, r>> : rot \in {1, -1}, b \in 0 .. (NumBearings - 1),
                           r \in 1 .. MaxRadius}

\* a bearing brought to [0, 2 pi)
NormBearing(a) ==
    IF Less(a, Whole(0)) THEN Add(a, TWO_PI)
    ELSE IF ~Less(a, TWO_PI) THEN Sub(a, TWO_PI)
    ELSE a

\* the complete consistent descriptor of a base <<rot, b, r>>
TrueArc(base) ==
    LET rot == Whole(base[1])
        bearing_in == Mul(Whole(base[2]), HALF_PI)
        radius == Whole(base[3])
        delta == Mul(Whole(2), ALPHA)
        half_delta == Div(delta, Whole(2))
        tangent == Mul(radius, Tan(half_delta))
        chord == Mul(Mul(Whole(2), radius), Sin(half_delta))
        start == Vec(Whole(2), Whole(3))
    IN  [k \in ArcKeys |->
          CASE k = "Direction" -> rot
            [] k = "Delta" -> delta
            [] k = "Radius" -> radius
            [] k = "Length" -> Mul(radius, delta)
            [] k = "Tangent" -> tangent
            [] k = "Chord" -> chord
            [] k = "External" -> Mul(radius, Sub(Div(Whole(1), Cos(half_delta)), Whole(1)))
            [] k = "Middle" -> Mul(radius, Sub(Whole(1), Cos(half_delta)))
            [] k = "BearingIn" -> bearing_in
            [] k = "BearingOut" -> NormBearing(Add(bearing_in, Mul(rot, delta)))
            [] k = "Start" -> start
            [] k = "Center" ->
                  VSub(start, VMul(vector_from_angle(Sub(bearing_in, Mul(rot, HALF_PI))),
                                   radius))
            [] k = "End" ->
                  VAdd(start, VMul(vector_from_angle(Add(bearing_in, Mul(rot, half_delta))),
                                   chord))
            [] k = "PI" -> VAdd(start, VMul(vector_from_angle(bearing_in), tangent))]

TrueArcs == [base \in Bases |-> TrueArc(base)]

Kinds == {"none", "true", "near", "wrong"}

\* half the tolerance
EPS == Div(TOLERANCE, Whole(2))

\* the value a field takes, given the consistent descriptor t: absent, the
\* consistent one, one within tolerance of it (for a length; Direction 0 =
\* unknown), or a contradicting one
FieldOf(t, k, kind) ==
    IF k \in PointKeys
    THEN CASE kind = "none" -> NoVec
           [] kind = "wrong" /\ k = "Start" -> VSub(t["Start"], VSub(t["PI"], t["Start"]))
           [] kind = "wrong" /\ k # "Start" ->
                 VAdd(t["Start"], VMul(VSub(t[k], t["Start"]), Whole(2)))
           [] OTHER -> t[k]
    ELSE CASE kind = "none" -> None
           [] kind = "true" -> t[k]
           [] kind = "near" /\ k = "Direction" -> Whole(0)
           [] kind = "near" /\ k \in {"Radius", "Length", "External", "Middle"} ->
                 Add(t[k], EPS)
           [] kind = "near" /\ k \in {"Tangent", "Chord"} -> Sub(t[k], EPS)
           [] kind = "near" -> t[k]
           [] kind = "wrong" /\ k = "Direction" -> Neg(t[k])
           [] kind = "wrong" /\ k \in {"BearingIn", "BearingOut"} ->
                 NormBearing(Add(t[k], HALF_PI))
           [] kind = "wrong" -> Mul(t[k], Whole(2))

FieldValue(base, k, kind) == FieldOf(TrueArcs[base], k, kind)

\* the six vectors get_arc_parameters forms from the points of a descriptor
ArcVecs(a) ==
    [i \in 0 .. 5 |->
        CASE i = 0 -> safe_sub(Get(a, "Start"), Get(a, "Center"))
          [] i = 1 -> safe_sub(Get(a, "End"), Get(a, "Center"))
          [] i = 2 -> safe_sub(Get(a, "PI"), Get(a, "Start"))
          [] i = 3 -> safe_sub(Get(a, "End"), Get(a, "PI"))
          [] i = 4 -> safe_sub(Get(a, "PI"), Get(a, "Center"))
          [] i = 5 -> safe_sub(Get(a, "End"), Get(a, "Start"))]

\* the exact arithmetic covers the vectors: every magnitude is rational and every
\* angle between two of them (and UP) is on the lattice
Representable(vecs) ==
    LET ml == mat_list(vecs)
        there(i) == ml[i] # ZeroVec
        mag(i) == Sqrt(Dot(ml[i], ml[i]))
    IN  /\ \A i \in 0 .. 5 : there(i) => IsSquare(Dot(ml[i], ml[i]))
        /\ \A i \in 0 .. 6 : \A j \in 0 .. 6 :
              (j < i /\ there(i) /\ there(j))
                  => HasAcos(Div(Dot(ml[i], ml[j]), Mul(mag(i), mag(j))))

PointChoices == [PointKeys -> {"none", "true", "wrong"}]

\* the point choices of a base the exact arithmetic covers
PointSets ==
    [base \in Bases |->
        {pts \in PointChoices :
            Representable(ArcVecs([k \in PointKeys |-> FieldValue(base, k, pts[k])]))}]

Profiles == Kinds \cup {"minimal"}

ProfileKind(profile, k) ==
    IF profile = "minimal"
    THEN (IF k \in {"Radius", "Delta", "Direction", "BearingIn"} THEN "true" ELSE "none")
    ELSE profile

\* the scalar fields follow a profile, but for at most one overridden field
Overrides == {<<"", "none">>} \cup (ScalarKeys \X Kinds)

\* the kind of each field of an input descriptor
InputKind(pts, profile, override, k) ==
    IF k \in PointKeys THEN pts[k]
    ELSE IF k = override[1] THEN override[2]
    ELSE ProfileKind(profile, k)

InputArc(base, pts, profile, override) ==
    [k \in ArcKeys |-> FieldValue(base, k, InputKind(pts, profile, override, k))]

\* ------------------------------------------------------------------------
\* get_arc_parameters as a state machine: one step per stage
\* ------------------------------------------------------------------------
VARIABLES
    arc,        \* the descriptor passed to get_arc_parameters
    pc,         \* the stage to run next, "done" after the return
    points,     \* [Start, End, Center, PI] as get_coordinates receives them
    vecs,       \* the six direction vectors
    mat,        \* the scalar matrix
    result,     \* the result dictionary under construction
    diag,       \* the diagnostic printed, "" if none
    outcome,    \* "running", then "ok" (a descriptor), "None" or "raise"
    ran         \* the stages executed, in order

vars == <<arc, pc, points, vecs, mat, result, diag, outcome, ran>>

\* The other components, each checked by a specification of its own; a component
\* that is not running is Idle
VARIABLES
    conv,       \* convert_units: a descriptor converted to system units and back
    disc,       \* get_points: the discretization of an arc
    imp,        \* AlignmentImporter: the elements parsed, the result, self.errors
    util        \* the support utilities: a call and what it returned

others == <<conv, disc, imp, util>>

Idle == [pc |-> "idle"]

OthersIdle == conv = Idle /\ disc = Idle /\ imp = Idle /\ util = Idle

DiagLengths == "Invalid curve definition: cannot determine radius / tangent lengths"
DiagDelta == "Invalid curve definition: cannot determine central angle"
DiagRotation == "Invalid curve definition: cannot determine curve direction"
DiagBearings == "Invalid curve definition: cannot determine curve bearings"
DiagMissing == "Invalid curve definition: cannot calculate all parameters"
DiagCoordinates == "Invalid curve definition: cannot calculate coordinates"

EmptyDict == [k \in {} |-> None]

\* the point choices every scalar variation is tried with
FullPoints == [k \in PointKeys |-> "true"]
NoPoints == [k \in PointKeys |-> "none"]
StartOnly == [k \in PointKeys |-> IF k = "Start" THEN "true" ELSE "none"]

\* the inputs checked: every point choice with the complete and with the minimal
\* scalars, and every scalar variation with all, none or one of the points
Checked(pts, profile, override) ==
    \/ pts \in {FullPoints, NoPoints, StartOnly}
    \/ (profile \in {"true", "minimal"} /\ override[1] = "")

Init ==
    /\ \E base \in Bases : \E pts \in PointSets[base] :
          \E profile \in Profiles : \E override \in Overrides :
              /\ Checked(pts, profile, override)
              /\ arc = InputArc(base, pts, profile, override)
    /\ pc = "start"
    /\ points = <<>>
    /\ vecs = <<>>
    /\ mat = NoMatrix
    /\ result = EmptyDict
    /\ diag = ""
    /\ outcome = "running"
    /\ ran = <<>>
    /\ OthersIdle

\* a stage failure that prints its diagnostic and goes on to the next stage
ContinueNoReturn(stage, p, message, next) ==
    /\ ran' = Append(ran, stage)
    /\ IF p.kind = "raise"
       THEN /\ outcome' = "raise"
            /\ pc' = "done"
            /\ UNCHANGED <<result, diag>>
       ELSE IF Falsy(p)
       THEN /\ outcome' = "None"
            /\ diag' = message
            /\ pc' = next
            /\ UNCHANGED result
       ELSE /\ result' = p.val @@ result
            /\ pc' = next
            /\ UNCHANGED <<diag, outcome>>
    /\ UNCHANGED <<arc, points, vecs, mat>>
    /\ UNCHANGED others

\* what follows a stage result p: the failure return with its diagnostic, an
\* exception, or result.update(p) and the next stage
Continue(stage, p, message, next) ==
    /\ ran' = Append(ran, stage)
    /\ IF p.kind = "raise"
       THEN /\ outcome' = "raise"
            /\ pc' = "done"
            /\ UNCHANGED <<result, diag>>
       ELSE IF Falsy(p)
       THEN /\ outcome' = "None"
            /\ diag' = message
            /\ pc' = "done"
            /\ UNCHANGED result
       ELSE /\ result' = p.val @@ result
            /\ pc' = next
            /\ UNCHANGED <<diag, outcome>>
    /\ UNCHANGED <<arc, points, vecs, mat>>
    /\ UNCHANGED others

\* lines 362-381: the points, the vectors and the matrix
Begin ==
    /\ pc = "start"
    /\ LET pts == [i \in 0 .. 3 |-> CASE i = 0 -> Get(arc, "Start")
                                      [] i = 1 -> Get(arc, "End")
                                      [] i = 2 -> Get(arc, "Center")
                                      [] i = 3 -> Get(arc, "PI")]
           point_count == Cardinality({i \in 0 .. 3 : IsVec(pts[i])})
       IN  points' = IF point_count = 0 THEN [pts EXCEPT ![0] = ZeroVec] ELSE pts
    /\ vecs' = ArcVecs(arc)
    /\ mat' = get_scalar_matrix(ArcVecs(arc))
    /\ pc' = "lengths"
    /\ UNCHANGED <<arc, result, diag, outcome, ran>>
    /\ UNCHANGED others

StageLengths ==
    /\ pc = "lengths"
    /\ IF mat.kind = "None"
       THEN Continue("lengths", Raised, DiagLengths, "delta")
       ELSE Continue("lengths", get_lengths(arc, mat), DiagLengths, "delta")

StageDelta ==
    /\ pc = "delta"
    /\ Continue("delta", get_delta(arc, mat), DiagDelta, "rotation")

StageRotation ==
    /\ pc = "rotation"
    /\ Continue("rotation", get_rotation(arc, vecs), DiagRotation, "bearings")

StageBearings ==
    /\ pc = "bearings"
    /\ Continue("bearings", get_bearings(arc, mat, result["Delta"], result["Direction"]),
                DiagBearings, "missing")

StageMissing ==
    /\ pc = "missing"
    /\ LET p == get_missing_parameters(result, result, TRUE)
       IN  IF Falsy(p)
           THEN Continue("missing", p, DiagMissing, "coordinates")
           ELSE Continue("missing", Dict(p.val @@ MissingFill(result)), DiagMissing,
                         "coordinates")

\* the coordinate stage, result.pop('Bearings') and the return
StageCoordinates ==
    /\ pc = "coordinates"
    /\ ran' = Append(ran, "coordinates")
    /\ LET p == get_coordinates(result, points)
       IN  IF Falsy(p)
           THEN /\ outcome' = "None"
                /\ diag' = DiagCoordinates
                /\ UNCHANGED result
           ELSE /\ outcome' = "ok"
                /\ result' = PopBearings(p.val @@ result)
                /\ UNCHANGED diag
    /\ pc' = "done"
    /\ UNCHANGED <<arc, points, vecs, mat>>
    /\ UNCHANGED others

Next ==
    \/ Begin
    \/ StageLengths
    \/ StageDelta
    \/ StageRotation
    \/ StageBearings
    \/ StageMissing
    \/ StageCoordinates

Spec == Init /\ [][Next]_vars

\* ------------------------------------------------------------------------
\* Arc.py: convert_units
\* ------------------------------------------------------------------------
\* the length units a document can have
DocUnits == {"m", "ft"}

\* Units.scale_factor(): system units (mm) per document unit
scale_factor(unit) == IF unit = "ft" THEN Rat(1524, 5) ELSE Whole(1000)

\* math.radians and math.degrees
radians(v) == Div(Mul(v, PI), Whole(180))
degrees(v) == Div(Mul(v, Whole(180)), PI)

angle_keys == {"Delta", "BearingIn", "BearingOut"}

\* _v * scale_factor, for a float and for an App.Vector
Scaled(v, factor) == IF IsVec(v) THEN VMul(v, factor) ELSE Mul(v, factor)

\* convert_units that ignores to_document: always to system units
convert_units_one_way(a, to_document, unit) ==
    [k \in DOMAIN a |->
        IF IsNone(a[k]) THEN a[k]
        ELSE IF k \in angle_keys THEN radians(a[k])
        ELSE IF k # "Direction" THEN Scaled(a[k], scale_factor(unit))
        ELSE a[k]]

\* convert_units(arc, to_document) in a document of the given unit
convert_units(a, to_document, unit) ==
    [k \in DOMAIN a |->
        IF IsNone(a[k]) THEN a[k]
        ELSE IF k \in angle_keys
        THEN (IF to_document THEN degrees(a[k]) ELSE radians(a[k]))
        ELSE IF k # "Direction"
        THEN Scaled(a[k], IF to_document THEN Div(Whole(1), scale_factor(unit))
                                         ELSE scale_factor(unit))
        ELSE a[k]]

\* the descriptors converted: those the resolver is checked with
InitUnits ==
    /\ \E base \in Bases : \E pts \in PointSets[base] :
          \E profile \in Profiles : \E override \in Overrides : \E unit \in DocUnits :
              /\ Checked(pts, profile, override)
              /\ conv = [pc |-> "internal", unit |-> unit,
                         arc |-> InputArc(base, pts, profile, override)]
    /\ disc = Idle /\ imp = Idle /\ util = Idle
    /\ arc = EmptyDict /\ pc = "idle" /\ points = <<>> /\ vecs = <<>>
    /\ mat = NoMatrix /\ result = EmptyDict /\ diag = "" /\ outcome = "idle"
    /\ ran = <<>>

\* run_test: convert_units(dct)
ToInternal ==
    /\ conv.pc = "internal"
    /\ conv' = [pc |-> "document", unit |-> conv.unit, arc |-> conv.arc,
                internal |-> convert_units(conv.arc, FALSE, conv.unit)]
    /\ UNCHANGED <<vars, disc, imp, util>>

\* run_test: convert_units(..., True)
ToDocument ==
    /\ conv.pc = "document"
    /\ conv' = [pc |-> "done", unit |-> conv.unit, arc |-> conv.arc,
                internal |-> conv.internal,
                document |-> convert_units(conv.internal, TRUE, conv.unit)]
    /\ UNCHANGED <<vars, disc, imp, util>>

NextUnits ==
    \/ ToInternal
    \/ ToDocument

SpecUnits == InitUnits /\ [][NextUnits]_<<vars, others>>

\* ------------------------------------------------------------------------
\* Arc.py: get_points
\* ------------------------------------------------------------------------
\* the keys get_points reads before it validates (lines 594-597)
KeysRead == {"Delta", "Direction", "InBearing", "Radius"}

\* _x <= 0
NotPositive(x) == ~Less(Whole(0), x)

\* int(x) for a float x >= 0
Trunc(x) == x[2] \div x[3]

\* the incremental angle (lines 617-624); NaN stands for the ValueError of
\* math.acos outside [-1, 1]
StepAngle(angle, radius, interval, interval_type) ==
    IF interval_type = "Interval" THEN Div(interval, radius)
    ELSE IF interval_type = "Tolerance"
    THEN (IF HasAcos(Sub(Whole(1), Div(interval, radius)))
          THEN Mul(Whole(2), Acos(Sub(Whole(1), Div(interval, radius))))
          ELSE NaN)
    ELSE Div(angle, interval)

\* line 627 alone: the multiples of the step, the last one not replaced
StepMultiples(angle, step) ==
    [n \in 1 .. (Trunc(Div(angle, step)) + 1) |-> Mul(Whole(n), step)]

\* lines 627-628: the multiples of the step, the last one replaced by the angle
segment_deltas(angle, step) ==
    [n \in 1 .. (Trunc(Div(angle, step)) + 1) |->
        IF n = Trunc(Div(angle, step)) + 1 THEN angle ELSE Mul(Whole(n), step)]

\* lines 611-612
Forward(bearing_in) == Vec(Sin(bearing_in), Cos(bearing_in))
Right(forward) == Vec(forward[3], Neg(forward[2]))

\* lines 632-635: the point at the turned angle delta
PointAt(forward, direction, radius_mm, start_coord, delta) ==
    VAdd(start_coord,
         VMul(VAdd(VMul(forward, Sin(delta)),
                   VMul(Right(forward), Mul(direction, Sub(Whole(1), Cos(delta))))),
              radius_mm))

\* the requests checked: <<interval_type, interval>> for an angle of k * ALPHA and a
\* radius r, with the steps the exact trigonometry covers, a zero interval and a
\* tolerance above the diameter
Requests(k, r) ==
    {<<"Segment", Whole(n)>> : n \in {m \in 0 .. MaxSteps : m = 0 \/ k % m = 0}}
    \cup {<<"Interval", Mul(Whole(r), Mul(Whole(m), ALPHA))>> : m \in 1 .. MaxSteps}
    \cup {<<"Tolerance", Mul(Whole(r), x)>> : x \in {Rat(1, 5), Rat(18, 25), Whole(3)}}

\* an arc dictionary under the keys of get_points, or under those of a resolved
\* descriptor
ArcDict(style, k, rot, b, r) ==
    IF style = "points"
    THEN [key \in {"Delta", "Direction", "InBearing", "OutBearing", "Radius"} |->
            CASE key = "Delta" -> Mul(Whole(k), ALPHA)
              [] key = "Direction" -> Whole(rot)
              [] key = "InBearing" -> Mul(Whole(b), HALF_PI)
              [] key = "OutBearing" ->
                    NormBearing(Add(Mul(Whole(b), HALF_PI), Mul(Whole(rot * k), ALPHA)))
              [] key = "Radius" -> Whole(r)]
    ELSE [key \in {"Delta", "Direction", "BearingIn", "BearingOut", "Radius"} |->
            CASE key = "Delta" -> Mul(Whole(k), ALPHA)
              [] key = "Direction" -> Whole(rot)
              [] key = "BearingIn" -> Mul(Whole(b), HALF_PI)
              [] key = "BearingOut" ->
                    NormBearing(Add(Mul(Whole(b), HALF_PI), Mul(Whole(rot * k), ALPHA)))
              [] key = "Radius" -> Whole(r)]

InitPoints ==
    /\ \E style \in {"points", "resolved"} : \E k \in 1 .. MaxSteps :
          \E rot \in {1, -1, 0} : \E b \in 0 .. (NumBearings - 1) :
             \E r \in 1 .. MaxRadius : \E req \in Requests(k, r) :
                \E start \in {ZeroVec, Vec(Whole(2), Whole(3))} : \E unit \in DocUnits :
                    disc = [pc |-> "validate", arc_dict |-> ArcDict(style, k, rot, b, r),
                            interval |-> req[2], interval_type |-> req[1],
                            start_coord |-> start, unit |-> unit,
                            deltas |-> <<>>, result |-> <<>>, outcome |-> "running"]
    /\ conv = Idle /\ imp = Idle /\ util = Idle
    /\ arc = EmptyDict /\ pc = "idle" /\ points = <<>> /\ vecs = <<>>
    /\ mat = NoMatrix /\ result = EmptyDict /\ diag = "" /\ outcome = "idle"
    /\ ran = <<>>

\* how get_points ends: "raise" (an exception), "None" or "list"
Finish(how) == disc' = [disc EXCEPT !.pc = "done", !.outcome = how]

\* lines 594-607: KeyError for a key that is missing; calc_arc_delta is defined
\* nowhere: NameError; the validations
Validate ==
    /\ disc.pc = "validate"
    /\ IF ~(KeysRead \subseteq DOMAIN disc.arc_dict) THEN Finish("raise")
       ELSE IF ~Truthy(disc.arc_dict["Direction"]) \/ ~Truthy(disc.arc_dict["Delta"])
       THEN Finish("raise")
       ELSE IF \/ NotPositive(disc.arc_dict["Radius"])
               \/ NotPositive(disc.arc_dict["Delta"])
               \/ NotPositive(disc.interval)
       THEN Finish("None")
       ELSE IF ~(/\ Less(Whole(0), disc.arc_dict["InBearing"])
                 /\ Less(disc.arc_dict["InBearing"], TWO_PI))
       THEN Finish("None")
       ELSE disc' = [disc EXCEPT !.pc = "subdivide"]
    /\ UNCHANGED <<vars, conv, imp, util>>

\* lines 609-628: result = [App.Vector()] and the segment deltas
Subdivide ==
    /\ disc.pc = "subdivide"
    /\ IF IsNaN(StepAngle(disc.arc_dict["Delta"], disc.arc_dict["Radius"],
                          disc.interval, disc.interval_type))
       THEN Finish("raise")
       ELSE disc' = [disc EXCEPT
                !.pc = "generate",
                !.result = <<ZeroVec>>,
                !.deltas = segment_deltas(disc.arc_dict["Delta"],
                              StepAngle(disc.arc_dict["Delta"], disc.arc_dict["Radius"],
                                        disc.interval, disc.interval_type))]
    /\ UNCHANGED <<vars, conv, imp, util>>

\* one pass of the loop of lines 630-635
AppendPoint ==
    /\ disc.pc = "generate"
    /\ Len(disc.result) <= Len(disc.deltas)
    /\ disc' = [disc EXCEPT !.result = Append(disc.result,
                    PointAt(Forward(disc.arc_dict["InBearing"]),
                            disc.arc_dict["Direction"],
                            Mul(disc.arc_dict["Radius"], scale_factor(disc.unit)),
                            disc.start_coord,
                            disc.deltas[Len(disc.result)]))]
    /\ UNCHANGED <<vars, conv, imp, util>>

\* line 637
ReturnPoints ==
    /\ disc.pc = "generate"
    /\ Len(disc.result) > Len(disc.deltas)
    /\ Finish("list")
    /\ UNCHANGED <<vars, conv, imp, util>>

NextPoints ==
    \/ Validate
    \/ Subdivide
    \/ AppendPoint
    \/ ReturnPoints

SpecPoints == InitPoints /\ [][NextPoints]_<<vars, others>>

\* ------------------------------------------------------------------------
\* Project/XML/AlignmentImporter.py
\*
\* An XML attribute dictionary is a function from the attribute names that are
\* present to their string tokens.  A parsed value is a float-or-None triple or
\* a string <<"Str", s, 1>>; RaiseVal stands for an exception.
\* ------------------------------------------------------------------------
Str(s) == <<"Str", s, 1>>
IsStr(v) == v[1] = "Str"
RaiseVal == <<"Raise", 0, 1>>

\* bool(v) for a parsed value: the empty string, None and 0.0 are false
PyTruthy(v) == IF IsStr(v) THEN v[2] # "" ELSE Truthy(v)

\* float(token) for the tokens that are numerals
Numerals == {"0", "2", "5", "10", "90", "100"}
Numeral(token) ==
    CASE token = "0" -> Whole(0)
      [] token = "2" -> Whole(2)
      [] token = "5" -> Whole(5)
      [] token = "10" -> Whole(10)
      [] token = "90" -> Whole(90)
      [] token = "100" -> Whole(100)

\* Utils.to_float of a string: NaN becomes None; for a string that is no number
\* float() fails, result stays None and math.isnan(None) raises TypeError
to_float(token) ==
    IF token \in Numerals THEN Numeral(token)
    ELSE IF token = "nan" THEN None
    ELSE RaiseVal

\* attrib.get(key) is None
Absent(attrib, key) == key \notin DOMAIN attrib

\* _convert_token(attrib.get(key), typ)
convert_token(attrib, key, typ) ==
    IF Absent(attrib, key) THEN None
    ELSE IF attrib[key] = "" THEN None
    ELSE IF typ = "" THEN Str(attrib[key])
    ELSE to_float(attrib[key])

\* a tag: the XML attribute, the internal name, the type and the default
Tag(key, name, typ, default) == [key |-> key, name |-> name, typ |-> typ, default |-> default]

\* the tag tables: the required keys and {**tags['req'], **tags['opt']} in order
META_TAGS ==
    [req |-> {"length", "staStart"},
     all |-> <<Tag("length", "Length", "float", Whole(0)),
               Tag("staStart", "StartStation", "float", Whole(0)),
               Tag("name", "ID", "", Str("Alignment")),
               Tag("desc", "Description", "", Str("")),
               Tag("oID", "ObjectID", "", Str("")),
               Tag("state", "Status", "", Str("proposed"))>>]

STATION_TAGS ==
    [req |-> {"staAhead", "staInternal"},
     all |-> <<Tag("staAhead", "Ahead", "float", Whole(0)),
               Tag("staInternal", "Position", "float", Whole(0)),
               Tag("staBack", "Back", "float", Whole(0)),
               Tag("staIncrement", "Direction", "", Whole(0)),
               Tag("desc", "Description", "", Str(""))>>]

LINE_TAGS ==
    [req |-> {},
     all |-> <<Tag("desc", "Description", "", Str("")),
               Tag("dir", "BearingIn", "float", Str("nan")),
               Tag("length", "Length", "float", Whole(0)),
               Tag("name", "Name", "", Str("")),
               Tag("staStart", "StartStation", "float", None),
               Tag("state", "Status", "", Str("")),
               Tag("oID", "ObjectID", "", Str("")),
               Tag("note", "Note", "", Str(""))>>]

SPIRAL_TAGS ==
    [req |-> {"length", "radiusEnd", "radiusStart", "rot", "spiType"},
     all |-> <<Tag("length", "length", "float", Whole(0)),
               Tag("radiusEnd", "RadiusEnd", "float", Whole(0)),
               Tag("radiusStart", "RadiusStart", "float", Whole(0)),
               Tag("rot", "Direction", "", Whole(0)),
               Tag("spiType", "SpiralType", "", Str("clothoid")),
               Tag("chord", "Chord", "float", Whole(0)),
               Tag("constant", "Constant", "float", Whole(0)),
               Tag("desc", "Description", "", Str("")),
               Tag("dirEnd", "BearingOut", "float", Str("")),
               Tag("dirStart", "BearingIn", "float", Str("nan")),
               Tag("external", "External", "float", Whole(0)),
               Tag("midOrd", "MiddleOrdinate", "float", Whole(0)),
               Tag("name", "Name", "", Str("")),
               Tag("radius", "Radius", "float", Whole(0)),
               Tag("staStart", "StartStation", "float", None),
               Tag("state", "Status", "", Str("proposed")),
               Tag("tangent", "Tangent", "float", Whole(0)),
               Tag("oID", "ObjectID", "", Str("")),
               Tag("note", "Note", "", Str(""))>>]

CURVE_TAGS ==
    [req |-> {"rot"},
     all |-> <<Tag("rot", "Direction", "", Whole(0)),
               Tag("chord", "Chord", "float", Whole(0)),
               Tag("crvType", "CurveType", "", Str("arc")),
               Tag("delta", "Delta", "float", Whole(0)),
               Tag("desc", "Description", "", Str("")),
               Tag("dirEnd", "BearingOut", "float", Str("nan")),
               Tag("dirStart", "BearingIn", "float", Str("nan")),
               Tag("external", "External", "float", Whole(0)),
               Tag("length", "Length", "float", Whole(0)),
               Tag("midOrd", "MiddleOrdinate", "float", Whole(0)),
               Tag("name", "Name", "", Str("")),
               Tag("radius", "Radius", "float", Whole(0)),
               Tag("staStart", "StartStation", "float", None),
               Tag("state", "Status", "", Str("proposed")),
               Tag("tangent", "Tangent", "float", Whole(0)),
               Tag("oID", "ObjectID", "", Str("")),
               Tag("note", "Note", "", Str(""))>>]

GEOM_TAGS(node_tag) ==
    CASE node_tag = "Curve" -> CURVE_TAGS
      [] node_tag = "Spiral" -> SPIRAL_TAGS
      [] node_tag = "Line" -> LINE_TAGS

LENGTH_TAGS == {"radius", "radiusStart", "radiusEnd", "chord", "external", "midOrd",
                "tangent", "length"}
ANGLE_TAGS == {"delta", "dir", "dirStart", "dirEnd"}

\* lines 213-235: the value of an attribute whose token converted to attr_val
Converted(key, attr_val, token, unit) ==
    IF key \in ANGLE_TAGS
    THEN (IF Truthy(to_float(token)) THEN radians(to_float(token)) ELSE to_float(token))
    ELSE IF key \in LENGTH_TAGS
    THEN (IF Truthy(to_float(token)) THEN Mul(to_float(token), scale_factor(unit))
          ELSE to_float(token))
    ELSE IF key = "rot"
    THEN (IF token = "cw" THEN Whole(1) ELSE IF token = "ccw" THEN Whole(-1) ELSE Whole(0))
    ELSE attr_val

\* lines 237-238: if not attr_val: attr_val = _tuple[2]
OrDefault(attr_val, default) == IF PyTruthy(attr_val) THEN attr_val ELSE default

\* lines 203-238: the value stored for one tag, or RaiseVal
ParseAttr(tag, attrib, unit) ==
    IF convert_token(attrib, tag.key, tag.typ) = RaiseVal THEN RaiseVal
    ELSE IF IsNone(convert_token(attrib, tag.key, tag.typ))
    THEN OrDefault(None, tag.default)
    ELSE OrDefault(Converted(tag.key, convert_token(attrib, tag.key, tag.typ),
                             attrib[tag.key], unit),
                   tag.default)

\* result[name] = value
Put(d, name, value) == [k \in DOMAIN d \cup {name} |-> IF k = name THEN value ELSE d[k]]

\* what a parse returns: kind "dict", "list", "None" or "raise", the value, and
\* self.errors afterwards
Parsed(kind, val, errors) == [kind |-> kind, val |-> val, errors |-> errors]

\* lines 205-211: the error of a required attribute without a value
AttrErrors(errors, tag, tags, attrib, align_name) ==
    IF IsNone(convert_token(attrib, tag.key, tag.typ)) /\ tag.key \in tags.req
    THEN Append(errors, <<"Missing or invalid attribute", tag.name, align_name>>)
    ELSE errors

\* the loop of lines 201-240 from the n-th tag on
RECURSIVE ParseFrom(_, _, _, _, _, _)
ParseFrom(n, tags, attrib, align_name, unit, acc) ==
    IF n > Len(tags.all) THEN acc
    ELSE IF ParseAttr(tags.all[n], attrib, unit) = RaiseVal
    THEN Parsed("raise", <<>>, acc.errors)
    ELSE ParseFrom(n + 1, tags, attrib, align_name, unit,
            Parsed("dict",
                   Put(acc.val, tags.all[n].name, ParseAttr(tags.all[n], attrib, unit)),
                   AttrErrors(acc.errors, tags.all[n], tags, attrib, align_name)))

\* _parse_data (lines 179-242)
parse_data(errors, align_name, tags, attrib, unit) ==
    IF tags.req \ DOMAIN attrib # {}
    THEN Parsed("None", <<>>,
                Append(errors, <<"The required XML tags were not found", align_name,
                                 tags.req \ DOMAIN attrib>>))
    ELSE ParseFrom(1, tags, attrib, align_name, unit, Parsed("dict", EmptyDict, errors))

\* _parse_meta_data (lines 244-259): _start.multiply() without an argument and
\* result['Start'] on None raise TypeError
MetaWith(p, start) ==
    IF p.kind = "raise" THEN p
    ELSE IF IsVec(start) \/ p.kind = "None" THEN Parsed("raise", <<>>, p.errors)
    ELSE Parsed("dict", Put(p.val, "Start", start), p.errors)

parse_meta_data(errors, align_name, alignment, unit) ==
    MetaWith(parse_data(errors, align_name, META_TAGS, alignment.attrib, unit),
             alignment.start)

\* lines 271-274: _dict['Alignment'] = align_name raises TypeError on None
StationWith(acc, p, align_name) ==
    IF p.kind = "dict"
    THEN Parsed("list", Append(acc.val, Put(p.val, "Alignment", Str(align_name))), p.errors)
    ELSE Parsed("raise", <<>>, p.errors)

\* the loop of _parse_station_data (lines 270-274) from the n-th equation on
RECURSIVE StationsFrom(_, _, _, _, _)
StationsFrom(n, equations, align_name, unit, acc) ==
    IF n > Len(equations) \/ acc.kind = "raise" THEN acc
    ELSE StationsFrom(n + 1, equations, align_name, unit,
            StationWith(acc,
                        parse_data(acc.errors, align_name, STATION_TAGS, equations[n], unit),
                        align_name))

parse_station_data(errors, align_name, alignment, unit) ==
    StationsFrom(1, alignment.equations, align_name, unit, Parsed("list", <<>>, errors))

CoordTags == <<"Start", "End", "Center", "PI">>

\* lines 342-356: the errors of the coordinates of a node that are missing
RECURSIVE CoordErrors(_, _, _, _)
CoordErrors(n, errors, node, align_name) ==
    IF n > Len(CoordTags) THEN errors
    ELSE CoordErrors(n + 1,
            IF /\ ~IsVec(node.points[CoordTags[n]])
               /\ ~(node.tag = "Line" /\ CoordTags[n] \in {"Center", "PI"})
            THEN Append(errors, <<"Missing coordinate", node.tag, CoordTags[n], align_name>>)
            ELSE errors,
            node, align_name)

\* lines 358-359, the points scaled at line 349
Coords(node, unit) ==
    [k \in {"Type", "Start", "End", "Center", "PI"} |->
        IF k = "Type" THEN Str(node.tag)
        ELSE IF IsVec(node.points[k]) THEN VMul(node.points[k], scale_factor(unit))
        ELSE None]

\* {**coords, **parsed}
Merge(coords, parsed) ==
    [k \in DOMAIN coords \cup DOMAIN parsed |->
        IF k \in DOMAIN parsed THEN parsed[k] ELSE coords[k]]

\* lines 361-363: {**coords, **None} raises TypeError
NodeWith(acc, p, node, unit) ==
    IF p.kind = "dict"
    THEN Parsed("list", Append(acc.val, Merge(Coords(node, unit), p.val)), p.errors)
    ELSE Parsed("raise", <<>>, p.errors)

\* the loop of _parse_coord_geo_data (lines 332-363) from the n-th node on
RECURSIVE NodesFrom(_, _, _, _, _)
NodesFrom(n, nodes, align_name, unit, acc) ==
    IF n > Len(nodes) \/ acc.kind = "raise" THEN acc
    ELSE IF nodes[n].tag \notin {"Curve", "Spiral", "Line"}
    THEN NodesFrom(n + 1, nodes, align_name, unit, acc)
    ELSE NodesFrom(n + 1, nodes, align_name, unit,
            NodeWith(acc,
                     parse_data(CoordErrors(1, acc.errors, nodes[n], align_name),
                                align_name, GEOM_TAGS(nodes[n].tag), nodes[n].attrib, unit),
                     nodes[n], unit))

\* _parse_coord_geo_data (lines 318-366): None without coordinate geometry
parse_coord_geo_data(errors, align_name, alignment, unit) ==
    IF alignment.nodes = <<>> THEN Parsed("None", <<>>, errors)
    ELSE NodesFrom(1, alignment.nodes, align_name, unit, Parsed("list", <<>>, errors))

\* the files imported: at most MaxAlignments alignments, one of them varied
MaxAlignments == 2

\* an attribute dictionary from a set of <<name, token>> pairs
Attribs(pairs) == [k \in {p[1] : p \in pairs} |-> (CHOOSE p \in pairs : p[1] = k)[2]]

AllCoords == [k \in {"Start", "End", "Center", "PI"} |->
                CASE k = "Start" -> Vec(Whole(2), Whole(3))
                  [] k = "End" -> Vec(Rat(32, 25), Rat(99, 25))
                  [] k = "Center" -> Vec(Whole(1), Whole(3))
                  [] k = "PI" -> Vec(Whole(2), Rat(15, 4))]
NoCenter == [AllCoords EXCEPT !["Center"] = NoVec]

Node(tag, pts, pairs) == [tag |-> tag, points |-> pts, attrib |-> Attribs(pairs)]

\* Curve elements: rot present or not, angles and lengths with and without zero
Curves ==
    {Node("Curve", AllCoords, rot \cup dirStart \cup delta \cup radius) :
        rot \in {{<<"rot", "cw">>}, {<<"rot", "ccw">>}, {}},
        dirStart \in {{<<"dirStart", "0">>}, {<<"dirStart", "90">>}, {}},
        delta \in {{<<"delta", "90">>}, {<<"delta", "0">>}},
        radius \in {{<<"radius", "2">>}, {<<"radius", "0">>}, {<<"radius", "two">>}}}

Lines ==
    {Node("Line", pts, pairs) :
        pts \in {AllCoords, NoCenter},
        pairs \in {{}, {<<"dir", "0">>, <<"length", "100">>},
                   {<<"dir", "90">>, <<"length", "100">>}}}

Spirals ==
    {Node("Spiral", NoCenter, pairs \cup {<<"length", "100">>, <<"radiusStart", "2">>,
                                           <<"rot", "cw">>, <<"spiType", "clothoid">>}) :
        pairs \in {{<<"radiusEnd", "5">>}, {}}}

Geometries ==
    {<<>>} \cup {<<n>> : n \in Curves \cup Lines \cup Spirals}
           \cup {<<n, Node("Line", AllCoords, {})>> :
                    n \in Spirals \cup {c \in Curves : "dirStart" \notin DOMAIN c.attrib}}

Equations ==
    {<<>>,
     <<Attribs({<<"staAhead", "10">>, <<"staInternal", "5">>})>>,
     <<Attribs({<<"staInternal", "5">>})>>,
     <<Attribs({<<"staAhead", "10">>, <<"staInternal", "5">>}),
       Attribs({<<"staBack", "10">>, <<"staInternal", "5">>})>>}

MetaAttribs(name) ==
    {Attribs({<<"name", name>>, <<"length", "100">>, <<"staStart", "0">>}),
     Attribs({<<"name", name>>, <<"staStart", "0">>})}

Alignments(name) ==
    {[attrib |-> m, start |-> s, equations |-> e, nodes |-> g] :
        m \in MetaAttribs(name), s \in {NoVec, Vec(Whole(2), Whole(3))},
        e \in Equations, g \in Geometries}

\* an alignment every part of which parses
Plain(name) ==
    [attrib |-> Attribs({<<"name", name>>, <<"length", "100">>, <<"staStart", "0">>}),
     start |-> NoVec, equations |-> <<>>, nodes |-> <<Node("Line", AllCoords, {})>>]

AlignName(n) == IF n = 1 THEN "A" ELSE IF n = 2 THEN "B" ELSE "C"

\* an alignment without a name attribute, every other part of which parses
Nameless ==
    [attrib |-> Attribs({<<"length", "100">>, <<"staStart", "0">>}),
     start |-> NoVec, equations |-> <<>>, nodes |-> <<Node("Line", AllCoords, {})>>]

\* files with a repeated name and with nameless alignments
RepeatedNames ==
    {<<Plain("A"), Plain("A")>>, <<Nameless>>, <<Nameless, Nameless>>,
     <<Plain("A"), Nameless>>}

Files ==
    {<<>>} \cup RepeatedNames \cup
    UNION {UNION {{[k \in 1 .. n |-> IF k = pos THEN a ELSE Plain(AlignName(k))] :
                      a \in Alignments(AlignName(pos))} : pos \in 1 .. n} :
           n \in 1 .. MaxAlignments}

InitImport ==
    /\ \E file \in Files : \E units \in {"match", "missing", "other"} :
          \E unit \in DocUnits :
             /\ units # "match" => file = <<>>
             /\ imp = [pc |-> "open", file |-> file, units |-> units, unit |-> unit,
                       i |-> 1, errors |-> <<>>, result |-> EmptyDict,
                       outcome |-> "running"]
    /\ conv = Idle /\ disc = Idle /\ util = Idle
    /\ arc = EmptyDict /\ pc = "idle" /\ points = <<>> /\ vecs = <<>>
    /\ mat = NoMatrix /\ result = EmptyDict /\ diag = "" /\ outcome = "idle"
    /\ ran = <<>>

\* _get_alignment_name (lines 157-177) for the keys 'Project' and 'Alignments'
get_alignment_name(attrib) ==
    IF "name" \in DOMAIN attrib THEN attrib["name"] ELSE "Unkown Alignment "

\* the name of the alignment being parsed
CurrentName == get_alignment_name(imp.file[imp.i].attrib)

\* an exception leaves import_file
Escape(errors) == imp' = [imp EXCEPT !.pc = "done", !.outcome = "raise", !.errors = errors]

\* align_dict[part] = value, then the next part
Store(part, p, next_pc, next_i) ==
    imp' = [imp EXCEPT !.pc = next_pc, !.i = next_i, !.errors = p.errors,
                       !.result = Put(imp.result, CurrentName,
                                      Put(Get(imp.result, CurrentName), part,
                                          IF p.kind = "None" THEN None ELSE p.val))]

\* lines 374-402: the units are checked
OpenFile ==
    /\ imp.pc = "open"
    /\ IF imp.units = "missing"
       THEN imp' = [imp EXCEPT !.pc = "done", !.outcome = "None",
                               !.errors = <<<<"Missing project units">>>>]
       ELSE IF imp.units = "other"
       THEN imp' = [imp EXCEPT !.pc = "done", !.outcome = "None",
                               !.errors = <<<<"Document units expected">>,
                                            <<"Invalid project units">>>>]
       ELSE imp' = [imp EXCEPT !.pc = IF imp.file = <<>> THEN "return" ELSE "meta"]
    /\ UNCHANGED <<vars, conv, disc, util>>

\* lines 406-411
ParseMeta ==
    /\ imp.pc = "meta"
    /\ IF parse_meta_data(imp.errors, CurrentName, imp.file[imp.i], imp.unit).kind = "raise"
       THEN Escape(parse_meta_data(imp.errors, CurrentName, imp.file[imp.i],
                                   imp.unit).errors)
       ELSE imp' = [imp EXCEPT
                !.pc = "station",
                !.errors = parse_meta_data(imp.errors, CurrentName, imp.file[imp.i],
                                           imp.unit).errors,
                !.result = Put(imp.result, CurrentName,
                               Put(EmptyDict, "meta",
                                   parse_meta_data(imp.errors, CurrentName,
                                                   imp.file[imp.i], imp.unit).val))]
    /\ UNCHANGED <<vars, conv, disc, util>>

\* line 412
ParseStations ==
    /\ imp.pc = "station"
    /\ IF parse_station_data(imp.errors, CurrentName, imp.file[imp.i],
                             imp.unit).kind = "raise"
       THEN Escape(parse_station_data(imp.errors, CurrentName, imp.file[imp.i],
                                      imp.unit).errors)
       ELSE Store("station",
                  parse_station_data(imp.errors, CurrentName, imp.file[imp.i], imp.unit),
                  "geometry", imp.i)
    /\ UNCHANGED <<vars, conv, disc, util>>

\* line 413, and the next alignment of the loop of line 404
ParseGeometry ==
    /\ imp.pc = "geometry"
    /\ IF parse_coord_geo_data(imp.errors, CurrentName, imp.file[imp.i],
                               imp.unit).kind = "raise"
       THEN Escape(parse_coord_geo_data(imp.errors, CurrentName, imp.file[imp.i],
                                        imp.unit).errors)
       ELSE Store("geometry",
                  parse_coord_geo_data(imp.errors, CurrentName, imp.file[imp.i], imp.unit),
                  IF imp.i = Len(imp.file) THEN "return" ELSE "meta", imp.i + 1)
    /\ UNCHANGED <<vars, conv, disc, util>>

\* line 415
ReturnResult ==
    /\ imp.pc = "return"
    /\ imp' = [imp EXCEPT !.pc = "done", !.outcome = "result"]
    /\ UNCHANGED <<vars, conv, disc, util>>

NextImport ==
    \/ OpenFile
    \/ ParseMeta
    \/ ParseStations
    \/ ParseGeometry
    \/ ReturnResult

SpecImport == InitImport /\ [][NextImport]_<<vars, others>>

\* ------------------------------------------------------------------------
\* ScriptedObjectSupport/Utils.py and Project/Support/Utils.py
\* ------------------------------------------------------------------------
\* stations tried: 0 .. MaxStation; equation lists of up to MaxEquations
MaxStation == 4
MaxEquations == 2

\* Utils.within_tolerance(lhs, rhs): the body reads the name lhr, which is bound
\* nowhere, so that evaluating it raises NameError before anything is compared
Utils_within_tolerance(lhs, rhs) == [kind |-> "raise", val |-> FALSE]

\* float(station) succeeds
IsFloat(station) == IsNum(station)

\* a station equation is <<back, forward>>
Backs == {Whole(-1)} \cup {Whole(n) : n \in 1 .. MaxStation}
Forwards == {Whole(n) : n \in 0 .. (MaxStation - 1)}
EquationLists ==
    UNION {[1 .. n -> Backs \X Forwards] : n \in 0 .. MaxEquations}

ToleranceValues == {None, Whole(0), Whole(1), Rat(1, 20000), Rat(1, 10000)}

InitUtils ==
    /\ \/ \E lhs \in ToleranceValues : \E rhs \in ToleranceValues :
             util = [pc |-> "call", op |-> "within_tolerance", lhs |-> lhs, rhs |-> rhs,
                     outcome |-> "running", returned |-> None]
       \/ \E station \in {Whole(n) : n \in 0 .. MaxStation} \cup {None, Str("10+00")} :
             \E equations \in EquationLists :
                util = [pc |-> "call", op |-> "station_to_distance",
                        station |-> station, equations |-> equations,
                        n |-> 1, start_sta |-> None, end_sta |-> None, start |-> None,
                        distance |-> None, outcome |-> "running", returned |-> None]
    /\ conv = Idle /\ disc = Idle /\ imp = Idle
    /\ arc = EmptyDict /\ pc = "idle" /\ points = <<>> /\ vecs = <<>>
    /\ mat = NoMatrix /\ result = EmptyDict /\ diag = "" /\ outcome = "idle"
    /\ ran = <<>>

\* a call of Utils.within_tolerance
CallWithinTolerance ==
    /\ util.pc = "call"
    /\ util.op = "within_tolerance"
    /\ util' = [util EXCEPT
            !.pc = "done",
            !.outcome = Utils_within_tolerance(util.lhs, util.rhs).kind,
            !.returned = Utils_within_tolerance(util.lhs, util.rhs).val]
    /\ UNCHANGED <<vars, conv, disc, imp>>

\* station_to_distance, lines 159-170: 0 for a station that is no float
EnterStation ==
    /\ util.pc = "call"
    /\ util.op = "station_to_distance"
    /\ IF IsFloat(util.station)
       THEN util' = [util EXCEPT !.pc = "loop", !.start_sta = Whole(-1),
                                 !.end_sta = Whole(-1), !.distance = Whole(0)]
       ELSE util' = [util EXCEPT !.pc = "done", !.outcome = "return",
                                 !.returned = Whole(0)]
    /\ UNCHANGED <<vars, conv, disc, imp>>

\* lines 177-185: the range is entered only when neither end is negative
InRange(start_sta, end_sta) == ~(Less(start_sta, Whole(0)) \/ Less(end_sta, Whole(0)))

\* _s <= end_sta and _s >= start_sta
Between(s, start_sta, end_sta) == ~Less(end_sta, s) /\ ~Less(s, start_sta)

\* one pass of the loop of lines 172-190; the forward station is assigned to
\* start, start_sta keeps its value
EquationStep ==
    /\ util.pc = "loop"
    /\ util.n <= Len(util.equations)
    /\ IF /\ InRange(util.start_sta, util.equations[util.n][1])
          /\ Between(util.station, util.start_sta, util.equations[util.n][1])
       THEN util' = [util EXCEPT
                !.pc = "return",
                !.end_sta = util.equations[util.n][1],
                !.distance = Add(util.distance, Sub(util.station, util.start_sta))]
       ELSE util' = [util EXCEPT
                !.n = util.n + 1,
                !.end_sta = util.equations[util.n][1],
                !.distance = IF InRange(util.start_sta, util.equations[util.n][1])
                             THEN Add(util.distance,
                                      Sub(util.equations[util.n][1], util.start_sta))
                             ELSE util.distance,
                !.start = util.equations[util.n][2]]
    /\ UNCHANGED <<vars, conv, disc, imp>>

\* line 192
ReturnDistance ==
    /\ \/ util.pc = "return"
       \/ util.pc = "loop" /\ util.n > Len(util.equations)
    /\ util' = [util EXCEPT !.pc = "done", !.outcome = "return",
                            !.returned = util.distance]
    /\ UNCHANGED <<vars, conv, disc, imp>>

NextUtils ==
    \/ CallWithinTolerance
    \/ EnterStation
    \/ EquationStep
    \/ ReturnDistance

SpecUtils == InitUtils /\ [][NextUtils]_<<vars, others>>

\* ------------------------------------------------------------------------
\* get_delta on the matrices of float input.  The central angles that the rows
\* of a matrix carry agree only within rounding, or within the tolerance that
\* get_lengths allows the radii and the tangents; here each row carries either
\* DeltaLow or DeltaHigh, an entry that involves an absent vector is NaN, and an
\* entry whose function is not assigned is 0
\* ------------------------------------------------------------------------
DeltaLow == Mul(Whole(2), ALPHA)
DeltaHigh == Add(Mul(Whole(2), ALPHA), EPS)

\* _GEO.FUNC[i][j] was assigned a formula
Assigned(i, j) == FUNC(i, j, Whole(1)) # Whole(0)

\* the matrix of the vectors in present, row i of which carries the angle row[i];
\* the diagonal and the bearing row, which get_delta does not read, are those of
\* unit vectors along UP
RowsMatrix(present, row) ==
    [kind |-> "matrix",
     A |-> [i \in 0 .. 6 |-> [j \in 0 .. 6 |->
              IF i = 6 \/ j = 6 \/ i = j
              THEN (IF i = 6 /\ j = 6 THEN Whole(1)
                    ELSE IF i \in present \cup {6} /\ j \in present \cup {6}
                    THEN (IF i = j THEN Whole(1) ELSE Whole(0))
                    ELSE IF i = j THEN Whole(0) ELSE NaN)
              ELSE IF j > i THEN Whole(0)
              ELSE IF ~Assigned(i, j) THEN Whole(0)
              ELSE IF i \in present /\ j \in present THEN row[i]
              ELSE NaN]]]

\* the vectors get_arc_parameters can form from the points in given
VecsFormed(given) ==
    {i \in 0 .. 5 :
        CASE i = 0 -> {"Start", "Center"} \subseteq given
          [] i = 1 -> {"End", "Center"} \subseteq given
          [] i = 2 -> {"PI", "Start"} \subseteq given
          [] i = 3 -> {"End", "PI"} \subseteq given
          [] i = 4 -> {"PI", "Center"} \subseteq given
          [] i = 5 -> {"End", "Start"} \subseteq given}

InitDelta ==
    /\ \E given \in SUBSET PointKeys : \E row \in [1 .. 5 -> {DeltaLow, DeltaHigh}] :
          \E user \in {None, Whole(0), DeltaLow} :
              /\ mat = RowsMatrix(VecsFormed(given), row)
              /\ arc = [k \in {"Delta"} |-> user]
    /\ pc = "delta"
    /\ points = <<>>
    /\ vecs = <<>>
    /\ result = EmptyDict
    /\ diag = ""
    /\ outcome = "running"
    /\ ran = <<>>
    /\ OthersIdle

SpecDelta == InitDelta /\ [][StageDelta]_<<vars, others>>

\* ------------------------------------------------------------------------
\* get_bearings on matrices whose bearing row carries candidates that differ
\* by less than, or by more than, the tolerance
\* ------------------------------------------------------------------------
BearingLow == HALF_PI
BearingHigh == Add(HALF_PI, EPS)
BearingFar == Add(HALF_PI, Mul(Whole(3), EPS))
BearingBelow == Sub(HALF_PI, Mul(Rat(3, 2), EPS))

\* the matrix whose row 6 makes _GEO.FUNC[6][j] return cands[j]; get_bearings
\* reads no other row
BearingsMatrix(cands, delta, rot) ==
    [kind |-> "matrix",
     A |-> [i \in 0 .. 6 |-> [j \in 0 .. 6 |->
              IF i = 6 /\ j < 6 THEN Sub(cands[j], FUNC6(j, Whole(0), delta, rot))
              ELSE IF i = j THEN Whole(1)
              ELSE Whole(0)]]]

InitBearings ==
    /\ \E cands \in [0 .. 5 -> {BearingLow, BearingHigh, BearingFar}] :
          \E user \in {None, BearingLow, BearingBelow} :
              /\ mat = BearingsMatrix(cands, DeltaLow, Whole(1))
              /\ arc = [k \in {"BearingIn", "BearingOut"} |->
                          IF k = "BearingIn" THEN user ELSE None]
    /\ result = [k \in {"Delta", "Direction"} |->
                    IF k = "Delta" THEN DeltaLow ELSE Whole(1)]
    /\ pc = "bearings"
    /\ points = <<>>
    /\ vecs = <<>>
    /\ diag = ""
    /\ outcome = "running"
    /\ ran = <<>>
    /\ OthersIdle

SpecBearings == InitBearings /\ [][StageBearings]_<<vars, others>>

\* ------------------------------------------------------------------------
\* get_coordinates on the resolved parameters of a consistent arc, with each of
\* the four points absent, consistent with the parameters, or contradicting them
\* ------------------------------------------------------------------------
\* what the stages before get_coordinates leave in result for the arc of a base
ResolvedArc(base) ==
    LET t == TrueArcs[base]
        rad0 == Sub(t["BearingIn"], Mul(t["Direction"], HALF_PI))
        zeros == [j \in 0 .. 6 |-> Whole(0)]
    IN  [k \in {"Radius", "Tangent", "Chord", "Delta", "Direction", "BearingIn",
                "BearingOut", "Bearings"} |->
            IF k = "Bearings"
            THEN MatBearings(zeros, t["BearingIn"], t["BearingOut"], rad0, t["Delta"],
                             t["Direction"])
            ELSE t[k]]

InitCoordinates ==
    /\ \E base \in Bases : \E pts \in PointChoices :
          /\ result = ResolvedArc(base)
          /\ points = [i \in 0 .. 3 |->
                          CASE i = 0 -> FieldValue(base, "Start", pts["Start"])
                            [] i = 1 -> FieldValue(base, "End", pts["End"])
                            [] i = 2 -> FieldValue(base, "Center", pts["Center"])
                            [] i = 3 -> FieldValue(base, "PI", pts["PI"])]
    /\ arc = EmptyDict
    /\ pc = "coordinates"
    /\ vecs = <<>>
    /\ mat = NoMatrix
    /\ diag = ""
    /\ outcome = "running"
    /\ ran = <<>>
    /\ OthersIdle

SpecCoordinates == InitCoordinates /\ [][StageCoordinates]_<<vars, others>>

\* ------------------------------------------------------------------------
\* get_scalar_matrix on vector lists of the expected length (six), shorter and
\* longer, followed by the lengths stage
\* ------------------------------------------------------------------------
VecCounts == {5, 6, 7}

\* the shape of mat * mat.T for n vectors: mat has a row per vector and the UP row
ProductShape(n) == <<n + 1, n + 1>>

InitMatrix ==
    /\ \E n \in VecCounts :
          /\ vecs \in [0 .. (n - 1) -> {NoVec, UP}]
          /\ n > 6 => vecs[6] = UP
    /\ arc \in {EmptyDict, [k \in {"Radius"} |-> Whole(1)]}
    /\ pc = "matrix"
    /\ points = <<>>
    /\ mat = NoMatrix
    /\ result = EmptyDict
    /\ diag = ""
    /\ outcome = "running"
    /\ ran = <<>>
    /\ OthersIdle

\* lines 85-126 for a list of n vectors: vecs[_i] for _i < 6 (line 90) raises
\* IndexError on a shorter list; then the shape test; then the loops over the
\* rows 0 .. 6, which with a seventh vector UP leave in these rows what they
\* leave for the first six vectors
CallScalarMatrix ==
    /\ pc = "matrix"
    /\ IF Cardinality(DOMAIN vecs) < 6
       THEN /\ outcome' = "raise"
            /\ pc' = "done"
            /\ UNCHANGED mat
       ELSE IF ShapeRejected(ProductShape(Cardinality(DOMAIN vecs)))
       THEN /\ mat' = NoMatrix
            /\ pc' = "lengths"
            /\ UNCHANGED outcome
       ELSE /\ mat' = get_scalar_matrix(vecs)
            /\ pc' = "lengths"
            /\ UNCHANGED outcome
    /\ UNCHANGED <<arc, points, vecs, result, diag, ran>>
    /\ UNCHANGED others

NextMatrix ==
    \/ CallScalarMatrix
    \/ StageLengths

SpecMatrix == InitMatrix /\ [][NextMatrix]_<<vars, others>>

\* ------------------------------------------------------------------------
\* Vocabulary of the properties
\* ------------------------------------------------------------------------
Done == pc = "done"

StageOrder == <<"lengths", "delta", "rotation", "bearings", "missing", "coordinates">>
Diagnostics == <<DiagLengths, DiagDelta, DiagRotation, DiagBearings, DiagMissing,
                 DiagCoordinates>>

\* a direction vector that could be formed and has a length
Formed(v) == IsVec(v) /\ v # ZeroVec
Magnitude(v) == Sqrt(Dot(v, v))

RadiusStart == safe_sub(arc["Start"], arc["Center"])
RadiusEnd == safe_sub(arc["End"], arc["Center"])
TangentStart == safe_sub(arc["PI"], arc["Start"])
TangentEnd == safe_sub(arc["End"], arc["PI"])

\* both vectors of a pair are formed and their lengths differ beyond the tolerance
Disagree(u, v) == Formed(u) /\ Formed(v) /\ ~Close(Magnitude(u), Magnitude(v))
RadiiDisagree == Disagree(RadiusStart, RadiusEnd)
TangentsDisagree == Disagree(TangentStart, TangentEnd)

PointsGiven == {k \in PointKeys : IsVec(arc[k])}

\* the closed forms of the redundant lengths
ClosedForm(k, radius, delta) ==
    CASE k = "Length" -> Mul(radius, delta)
      [] k = "Tangent" -> Mul(radius, Tan(Div(delta, Whole(2))))
      [] k = "Chord" -> Mul(Whole(2), Mul(radius, Sin(Div(delta, Whole(2)))))
      [] k = "External" ->
            Mul(radius, Sub(Div(Whole(1), Cos(Div(delta, Whole(2)))), Whole(1)))
      [] k = "Middle" -> Mul(radius, Sub(Whole(1), Cos(Div(delta, Whole(2)))))

Positive(v) == IsNum(v) /\ v[2] > 0

\* the stages run so far are the leading stages, in order; a None return carries
\* the diagnostic of the last stage run and ends the resolution; no diagnostic
\* is printed otherwise
FirstFailureStops ==
    /\ Len(ran) <= 6
    /\ \A i \in 1 .. Len(ran) : ran[i] = StageOrder[i]
    /\ outcome = "None" => (Done /\ Len(ran) >= 1 /\ diag = Diagnostics[Len(ran)])
    /\ outcome # "None" => diag = ""
    /\ Done => ~ENABLED Next

\* ------------------------------------------------------------------------
\* C1 (as stated): the stages run in the fixed order, the first stage without a
\* result returns None with its own diagnostic and nothing runs after it; and
\* when Radius is neither supplied nor derivable (no Radius, no radius vector, no
\* other length) the diagnostic is the radius/tangent one
\* ------------------------------------------------------------------------
RadiusUnknown ==
    /\ \A k \in {"Radius", "Tangent", "Chord", "Middle", "External", "Length"} :
            IsNone(arc[k])
    /\ ~Formed(RadiusStart)
    /\ ~Formed(RadiusEnd)

C1_AsStated ==
    /\ FirstFailureStops
    /\ (Done /\ RadiusUnknown) => (outcome = "None" /\ diag = DiagLengths)

\* C1 (amended): the stages run in the fixed order, the first stage without a
\* result returns None with its own diagnostic and nothing runs after it; the
\* radius/tangent diagnostic is printed exactly when the two radius vectors or
\* the two tangent vectors were both formed and differ in length beyond the
\* tolerance; an unknown Radius passes the lengths stage
C1_StagesInOrder ==
    /\ FirstFailureStops
    /\ (outcome = "None" /\ diag = DiagLengths)
            <=> (Len(ran) >= 1 /\ (RadiiDisagree \/ TangentsDisagree))

\* a resolution with Radius unknown that passed the lengths stage and was stopped
\* by the bearing stage, with that stage's diagnostic
C1_Witness ==
    /\ Done
    /\ RadiusUnknown
    /\ outcome = "None"
    /\ ran = <<"lengths", "delta", "rotation", "bearings">>
    /\ diag = DiagBearings

\* ------------------------------------------------------------------------
\* C2: a returned descriptor holds exactly the fourteen fields of the data
\* model, each with a value (no None), and no 'Bearings' entry
\* ------------------------------------------------------------------------
C2_AllFieldsPresent ==
    outcome = "ok" =>
        /\ DOMAIN result = ArcKeys
        /\ \A k \in PointKeys : IsVec(result[k])
        /\ \A k \in ScalarKeys : ~IsNone(result[k])

\* a success on an input with absent fields
C2_Witness == outcome = "ok" /\ \E k \in ScalarKeys : IsNone(arc[k])

ImpliedRadius ==
    IF Formed(RadiusStart) THEN Magnitude(RadiusStart) ELSE Magnitude(RadiusEnd)

RadiusContradicts ==
    /\ IsNum(arc["Radius"])
    /\ (Formed(RadiusStart) \/ Formed(RadiusEnd))
    /\ ~Close(arc["Radius"], ImpliedRadius)

C4_AsStated ==
    (Done /\ RadiusContradicts) => (outcome = "None" /\ diag = DiagLengths)

\* C4 (amended): a supplied Radius that differs beyond the tolerance from the
\* radius the points imply is replaced by the implied radius without a
\* diagnostic: once the lengths stage passed, the resolved Radius is the implied
\* one; the radius/tangent diagnostic needs two vectors of a pair that disagree
C4_ImpliedRadiusReplaces ==
    RadiusContradicts =>
        /\ diag = DiagLengths => (RadiiDisagree \/ TangentsDisagree)
        /\ (Len(ran) >= 1 /\ diag # DiagLengths) => result["Radius"] = ImpliedRadius
        /\ outcome = "ok" => result["Radius"] # arc["Radius"]

\* a descriptor returned although the supplied Radius contradicted the points
C4_Witness ==
    /\ RadiusContradicts
    /\ outcome = "ok"
    /\ result["Radius"] = ImpliedRadius

\* ------------------------------------------------------------------------
\* C5 (as stated): with none of the four points the resolution returns None
\* with the coordinate diagnostic
\* ------------------------------------------------------------------------
C5_AsStated ==
    (Done /\ PointsGiven = {}) => (outcome = "None" /\ diag = DiagCoordinates)

\* ------------------------------------------------------------------------
\* C6 (as stated): a complete consistent arc with some, but not all, points
\* removed resolves: all four points returned, the supplied ones unchanged, and
\* Radius, Delta, Direction, BearingIn, BearingOut within tolerance of the input
\* ------------------------------------------------------------------------
\* the scalars are those of a consistent arc and every point given lies on it
ConsistentWith(base) ==
    /\ \A k \in ScalarKeys : arc[k] = TrueArcs[base][k]
    /\ \A k \in PointsGiven : arc[k] = TrueArcs[base][k]

C6_AsStated ==
    (Done /\ PointsGiven # {} /\ \E base \in Bases : ConsistentWith(base)) =>
        /\ outcome = "ok"
        /\ \A k \in PointKeys : IsVec(result[k])
        /\ \A k \in PointsGiven : result[k] = arc[k]
        /\ \A k \in {"Radius", "Delta", "Direction", "BearingIn", "BearingOut"} :
                Close(result[k], arc[k])

\* ------------------------------------------------------------------------
\* C7 (as stated): Start, Radius, Delta, Direction and BearingIn alone resolve,
\* with those four scalars returned as supplied and the other points derived
\* ------------------------------------------------------------------------
SinglePoint ==
    /\ PointsGiven = {"Start"}
    /\ \A k \in ScalarKeys :
            IsNone(arc[k]) <=> k \notin {"Radius", "Delta", "Direction", "BearingIn"}

C7_AsStated ==
    (Done /\ SinglePoint) =>
        /\ outcome = "ok"
        /\ \A k \in {"Radius", "Delta", "Direction", "BearingIn"} : result[k] = arc[k]
        /\ \A k \in {"End", "Center", "PI"} : IsVec(result[k])

\* ------------------------------------------------------------------------
\* C8 (as stated): without a pair of an 'in' and an 'out' vector and without a
\* usable Direction (absent or 0) the resolution returns None with the
\* direction diagnostic and the bearing stage is not run
\* ------------------------------------------------------------------------
NoVectorPair ==
    \/ ~(Formed(RadiusStart) \/ Formed(RadiusEnd) \/ Formed(TangentStart))
    \/ ~(\/ Formed(TangentEnd)
         \/ Formed(safe_sub(arc["PI"], arc["Center"]))
         \/ Formed(safe_sub(arc["End"], arc["Start"])))

DirectionUnusable == IsNone(arc["Direction"]) \/ arc["Direction"] = Whole(0)

C8_AsStated ==
    (NoVectorPair /\ DirectionUnusable) =>
        /\ \A i \in 1 .. Len(ran) : ran[i] # "bearings"
        /\ Done => (outcome = "None" /\ diag = DiagRotation)

\* ------------------------------------------------------------------------
\* C9 (as stated): each of Length, External, Middle, Tangent and Chord is
\* returned as the caller supplied it if that is within tolerance of the closed
\* form of the resolved Radius and Delta, and as the closed form otherwise
\* ------------------------------------------------------------------------
C9_AsStated ==
    outcome = "ok" =>
        \A k \in MissingKeys :
            result[k] = IF Close(arc[k], ClosedForm(k, result["Radius"], result["Delta"]))
                        THEN arc[k]
                        ELSE ClosedForm(k, result["Radius"], result["Delta"])

\* ------------------------------------------------------------------------
\* C10 (as stated): in a returned descriptor each of Length, Tangent, Chord,
\* External and Middle is within tolerance of its closed form of the returned
\* Radius and Delta
\* ------------------------------------------------------------------------
C10_AsStated ==
    outcome = "ok" =>
        \A k \in MissingKeys :
            Close(result[k], ClosedForm(k, result["Radius"], result["Delta"]))

\* ------------------------------------------------------------------------
\* C11: converting a descriptor to system units and back to document units
\* gives the same keys and, on every field, the value it had (within the
\* tolerance for angles, lengths and points); each single conversion leaves
\* Direction and the absent fields as they are
\* ------------------------------------------------------------------------
\* two values of a field agree: both absent, or numbers or vectors within tolerance
SameValue(v, w) ==
    IF IsNone(v) \/ IsNone(w) THEN v = w
    ELSE IF IsVec(v) THEN IsVec(w) /\ Close(v[2], w[2]) /\ Close(v[3], w[3])
    ELSE Close(v, w)

PassedThrough(a, b) ==
    /\ DOMAIN b = DOMAIN a
    /\ b["Direction"] = a["Direction"]
    /\ \A k \in DOMAIN a : IsNone(a[k]) => b[k] = a[k]

C11_RoundTrip ==
    /\ conv.pc \in {"document", "done"} => PassedThrough(conv.arc, conv.internal)
    /\ conv.pc = "done" =>
            /\ PassedThrough(conv.internal, conv.document)
            /\ \A k \in DOMAIN conv.arc : SameValue(conv.arc[k], conv.document[k])

\* a descriptor with a point, an absent field and a Direction, converted to
\* other values and back
C11_Witness ==
    /\ conv.pc = "done"
    /\ IsVec(conv.arc["Start"])
    /\ IsNone(conv.arc["Tangent"])
    /\ IsNum(conv.arc["Direction"])
    /\ conv.internal["Delta"] # conv.arc["Delta"]
    /\ conv.internal["Start"] # conv.arc["Start"]
    /\ conv.document["Radius"] = conv.arc["Radius"]


\* ------------------------------------------------------------------------
\* get_points
\* ------------------------------------------------------------------------
\* get_points has returned a list
Discretized == disc.pc = "done" /\ disc.outcome = "list"

\* the point of the arc at the turned angle delta, for the call in disc
ArcPoint(delta) ==
    PointAt(Forward(disc.arc_dict["InBearing"]), disc.arc_dict["Direction"],
            Mul(disc.arc_dict["Radius"], scale_factor(disc.unit)),
            disc.start_coord, delta)

\* C12 (as stated): the list get_points returns for valid input does not contain
\* the starting point of the arc; its first element is the first subdivision
\* point after the start and its last element is the arc end point
C12_AsStated ==
    Discretized =>
        /\ disc.result[1] = ArcPoint(disc.deltas[1])
        /\ disc.result[Len(disc.result)] = ArcPoint(disc.arc_dict["Delta"])
        /\ \A n \in 1 .. Len(disc.result) : disc.result[n] # disc.start_coord

\* the angles of the list are built
AnglesBuilt == disc.pc = "generate" \/ Discretized

C14_AsStated == outcome = "ok" => KeysRead \subseteq DOMAIN result

\* ------------------------------------------------------------------------
\* AlignmentImporter
\* ------------------------------------------------------------------------
\* import_file has ended on a file whose units match the document
Imported == imp.pc = "done" /\ imp.units = "match"

\* nothing but required attributes missing from Curve, Line, Spiral or
\* StaEquation elements is wrong with the file: every Alignment element has its
\* required attributes and no Start child, and every token of a float attribute
\* is a numeral
OnlyAttributesMissing ==
    \A n \in 1 .. Len(imp.file) :
        /\ META_TAGS.req \subseteq DOMAIN imp.file[n].attrib
        /\ ~IsVec(imp.file[n].start)
        /\ \A m \in 1 .. Len(imp.file[n].nodes) :
              \A k \in DOMAIN imp.file[n].nodes[m].attrib :
                  imp.file[n].nodes[m].attrib[k] # "two"

\* C15 (as stated): a failing record never aborts the import batch: when an
\* element lacks a required attribute the importer records an error in
\* self.errors, import_file continues with the remaining elements and alignments
\* and returns its result dictionary; no exception escapes
C15_AsStated ==
    (Imported /\ OnlyAttributesMissing) =>
        /\ imp.outcome = "result"
        /\ DOMAIN imp.result =
              {get_alignment_name(imp.file[n].attrib) : n \in 1 .. Len(imp.file)}

\* ------------------------------------------------------------------------
\* C16 (as stated): no resolver function modifies a descriptor passed to it:
\* after the call every dictionary argument holds exactly the keys and values it
\* held before.  Here for get_missing_parameters, about to be called with the
\* accumulated result as both arguments, when it returns a result
\* ------------------------------------------------------------------------
C16_AsStated ==
    (pc = "missing" /\ ~Falsy(get_missing_parameters(result, result, TRUE))) =>
        MissingFill(result) = result

\* ------------------------------------------------------------------------
\* The utilities
\* ------------------------------------------------------------------------
\* a call of op has ended
Called(op) == util.pc = "done" /\ util.op = op

\* C17 (as stated): within_tolerance never raises: for two numbers it returns
\* true iff their absolute difference is below 1e-4, and false whenever an
\* argument is None
C17_AsStated ==
    Called("within_tolerance") =>
        /\ util.outcome = "return"
        /\ util.returned = Close(util.lhs, util.rhs)

\* the ranges of a list of equations: the n-th runs from the forward station of
\* equation n to the back station of equation n + 1
RangeStart(equations, n) == equations[n][2]
RangeEnd(equations, n) == equations[n + 1][1]

RECURSIVE RangesBefore(_, _)
RangesBefore(equations, n) ==
    IF n = 1 THEN Whole(0)
    ELSE Add(RangesBefore(equations, n - 1),
             Sub(RangeEnd(equations, n - 1), RangeStart(equations, n - 1)))

\* the station lies inside the n-th range, and the ranges up to it are ordered
Inside(station, equations, n) ==
    /\ n + 1 <= Len(equations)
    /\ \A m \in 1 .. n : ~Less(RangeEnd(equations, m), RangeStart(equations, m))
    /\ ~Less(station, RangeStart(equations, n))
    /\ ~Less(RangeEnd(equations, n), station)
    /\ \A m \in 1 .. (n - 1) : Less(RangeEnd(equations, m), station)

\* C18 (as stated): for a numeric station inside a station range the result is
\* the sum of the lengths of all preceding ranges plus (station - start of its
\* range); for a station that is not numeric the result is 0
C18_AsStated ==
    Called("station_to_distance") =>
        /\ ~IsFloat(util.station) => util.returned = Whole(0)
        /\ IsFloat(util.station) =>
              \A n \in 1 .. Len(util.equations) :
                  Inside(util.station, util.equations, n) =>
                      util.returned = Add(RangesBefore(util.equations, n),
                                          Sub(util.station, RangeStart(util.equations, n)))

\* ------------------------------------------------------------------------
\* C19 (as stated): a BearingIn of exactly 0 is a valid bearing: when the
\* descriptor supplies BearingIn = 0 together with Delta and Direction and no
\* vector contradicts it, get_bearings returns a result with BearingIn = 0
\* ------------------------------------------------------------------------
\* the bearing stage is about to run on a descriptor with BearingIn = 0, Delta
\* and Direction, and every bearing the vectors give is due north (0 within
\* tolerance once brought to [0, 2 pi))
NorthSupplied ==
    /\ pc = "bearings"
    /\ arc["BearingIn"] = Whole(0)
    /\ IsNum(arc["Delta"])
    /\ IsNum(arc["Direction"])
    /\ \A n \in 1 .. Len(BearingCandidates(mat, result["Delta"], result["Direction"])) :
          Close(NormBearing(BearingCandidates(mat, result["Delta"],
                                              result["Direction"])[n]), Whole(0))

C19_AsStated ==
    NorthSupplied =>
        /\ get_bearings(arc, mat, result["Delta"], result["Direction"]).kind = "dict"
        /\ get_bearings(arc, mat, result["Delta"], result["Direction"]).val["BearingIn"]
              = Whole(0)

\* ------------------------------------------------------------------------
\* C20 (as stated): _parse_data converts every angle attribute that is present
\* with a numeric value d to radians(d) and every length attribute that is
\* present with a numeric value v to v times the scale factor, 0 included: a
\* present value is never replaced by the default of the tag
\* ------------------------------------------------------------------------
\* the value the claim gives the attribute key of a node
ClaimedValue(key, token, unit) ==
    IF key \in ANGLE_TAGS THEN radians(Numeral(token))
    ELSE Mul(Numeral(token), scale_factor(unit))

\* the geometry element parsed from node m of alignment n holds the claimed value
\* of each angle and length attribute the node has with a numeric value
NodeConverted(n, m) ==
    \A t \in 1 .. Len(GEOM_TAGS(imp.file[n].nodes[m].tag).all) :
        (/\ GEOM_TAGS(imp.file[n].nodes[m].tag).all[t].key \in ANGLE_TAGS \cup LENGTH_TAGS
         /\ GEOM_TAGS(imp.file[n].nodes[m].tag).all[t].key \in
                DOMAIN imp.file[n].nodes[m].attrib
         /\ imp.file[n].nodes[m].attrib[GEOM_TAGS(imp.file[n].nodes[m].tag).all[t].key]
                \in Numerals)
        => imp.result[AlignName(n)]["geometry"][m][
                GEOM_TAGS(imp.file[n].nodes[m].tag).all[t].name]
           = ClaimedValue(GEOM_TAGS(imp.file[n].nodes[m].tag).all[t].key,
                          imp.file[n].nodes[m].attrib[
                              GEOM_TAGS(imp.file[n].nodes[m].tag).all[t].key],
                          imp.unit)

C20_AsStated ==
    (imp.pc = "done" /\ imp.outcome = "result") =>
        \A n \in 1 .. Len(imp.file) :
            \A m \in 1 .. Len(imp.file[n].nodes) : NodeConverted(n, m)

\* ------------------------------------------------------------------------
\* get_delta
\* ------------------------------------------------------------------------
\* the entries of the strict lower triangle of rows 1 .. 5 that get_delta
\* accepts, as <<row, column>>
UsableEntries(m) ==
    {e \in (1 .. 5) \X (0 .. 4) : e[2] < e[1] /\ Truthy(m.A[e[1]][e[2]])}

\* e comes before f in scan order: rows top down, columns left to right
ScansBefore(e, f) == e[1] < f[1] \/ (e[1] = f[1] /\ e[2] <= f[2])

\* the first usable entry in scan order
FirstUsable(m) ==
    CHOOSE e \in UsableEntries(m) : \A f \in UsableEntries(m) : ScansBefore(e, f)

\* C21 (as stated): get_delta returns the first usable angle of the strict lower
\* triangle in scan order: once an entry is accepted no later entry replaces it
C21_AsStated ==
    (ran # <<>> /\ ran[Len(ran)] = "delta" /\ UsableEntries(mat) # {}) =>
        /\ outcome = "running"
        /\ result["Delta"] = mat.A[FirstUsable(mat)[1]][FirstUsable(mat)[2]]

\* the delta stage has just run
DeltaStageRan == ran # <<>> /\ ran[Len(ran)] = "delta"

\* a finite nonzero number
Finite(v) == IsNum(v) /\ v[2] # 0

\* the entries of the strict lower triangle of rows 1 .. 5 that are finite and
\* nonzero
FiniteEntries(m) ==
    {e \in (1 .. 5) \X (0 .. 4) : e[2] < e[1] /\ Finite(m.A[e[1]][e[2]])}

\* C22 (as stated): no matrix entry derived from an absent vector (zero or NaN)
\* is used as a resolved value: get_delta never returns a NaN or zero Delta, it
\* falls back to the user's Delta when no entry is finite and nonzero and fails
\* when there is no user Delta either
C22_AsStated ==
    DeltaStageRan =>
        /\ outcome = "running" => Finite(result["Delta"])
        /\ (FiniteEntries(mat) = {} /\ Finite(Get(arc, "Delta"))) =>
              (outcome = "running" /\ result["Delta"] = arc["Delta"])
        /\ (FiniteEntries(mat) = {} /\ ~Finite(Get(arc, "Delta"))) => outcome = "None"

\* ------------------------------------------------------------------------
\* C23: in get_lengths, a radius pair or a tangent pair whose two magnitudes are
\* both available and differ beyond the tolerance makes the stage return None;
\* when the stage returns and the calculated magnitude of a pair is within
\* tolerance of the caller's value, the caller's value is returned unchanged
\* ------------------------------------------------------------------------
\* the length of the first tangent vector formed
ImpliedTangent ==
    IF Formed(TangentStart) THEN Magnitude(TangentStart) ELSE Magnitude(TangentEnd)

LengthsStageRan == ran = <<"lengths">>

C23_PairsChecked ==
    LengthsStageRan =>
        /\ (RadiiDisagree \/ TangentsDisagree) => (outcome = "None" /\ diag = DiagLengths)
        /\ outcome = "running" =>
              /\ ((Formed(RadiusStart) \/ Formed(RadiusEnd))
                      /\ Close(ImpliedRadius, arc["Radius"]))
                    => result["Radius"] = arc["Radius"]
              /\ ((Formed(TangentStart) \/ Formed(TangentEnd))
                      /\ Close(ImpliedTangent, arc["Tangent"]))
                    => result["Tangent"] = arc["Tangent"]

\* the lengths stage returned the caller's Radius and Tangent, each within
\* tolerance of, and different from, the calculated magnitude
C23_Witness ==
    /\ LengthsStageRan
    /\ outcome = "running"
    /\ Formed(RadiusStart)
    /\ Formed(TangentStart)
    /\ Close(ImpliedRadius, arc["Radius"])
    /\ arc["Radius"] # ImpliedRadius
    /\ result["Radius"] = arc["Radius"]
    /\ Close(ImpliedTangent, arc["Tangent"])
    /\ result["Tangent"] = arc["Tangent"]

\* the lengths stage stopped a descriptor whose two radius vectors disagree
C23_Stopped == LengthsStageRan /\ RadiiDisagree /\ outcome = "None"

\* ------------------------------------------------------------------------
\* C24 (as stated): in get_bearings, more than one candidate for BearingIn that
\* are not all within tolerance of each other give None; when the candidates
\* agree, the returned BearingIn is within tolerance of every candidate and the
\* returned BearingOut is within tolerance of BearingIn + Direction * Delta
\* ------------------------------------------------------------------------
BearingsStageRan == ran # <<>> /\ ran[Len(ran)] = "bearings" /\ outcome # "raise"

Candidates == BearingCandidates(mat, result["Delta"], result["Direction"])

C24_AsStated ==
    BearingsStageRan =>
        /\ (Len(Candidates) > 1 /\ ~within_tolerance_list(Candidates)) => outcome = "None"
        /\ (outcome = "running" /\ Candidates # <<>>) =>
              /\ \A n \in 1 .. Len(Candidates) : Close(result["BearingIn"], Candidates[n])
              /\ Close(result["BearingOut"],
                       Add(result["BearingIn"], Mul(result["Direction"], result["Delta"])))

\* ------------------------------------------------------------------------
\* C25 (as stated): every bearing of a descriptor returned by a successful
\* resolution lies in [0, 2 pi)
\* ------------------------------------------------------------------------
InTurn(b) == IsNum(b) /\ ~Less(b, Whole(0)) /\ Less(b, TWO_PI)

CoordinatesRan == ran = <<"coordinates">>

\* the index in points of Start, End, Center, PI
PointIndex(k) == CASE k = "Start" -> 0 [] k = "End" -> 1 [] k = "Center" -> 2 [] k = "PI" -> 3

Supplied == {k \in PointKeys : IsVec(points[PointIndex(k)])}

\* the vector from Start to the point k, by the resolved parameters
FromStart(k) ==
    CASE k = "Start" -> ZeroVec
      [] k = "PI" -> VMul(vector_from_angle(result["BearingIn"]), result["Tangent"])
      [] k = "Center" ->
            VMul(vector_from_angle(Sub(result["BearingIn"],
                                       Mul(result["Direction"], HALF_PI))),
                 Neg(result["Radius"]))
      [] k = "End" ->
            VMul(vector_from_angle(Add(result["BearingIn"],
                     Mul(result["Direction"], Div(result["Delta"], Whole(2))))),
                 result["Chord"])

\* the supplied point of the highest priority
Anchor ==
    IF "Start" \in Supplied THEN "Start"
    ELSE IF "PI" \in Supplied THEN "PI"
    ELSE IF "Center" \in Supplied THEN "Center"
    ELSE "End"

C26_AnchorByPriority ==
    CoordinatesRan =>
        /\ outcome = "None" <=> Supplied = {}
        /\ outcome = "ok" =>
              /\ \A k \in Supplied : result[k] = points[PointIndex(k)]
              /\ result["Start"] = VSub(points[PointIndex(Anchor)], FromStart(Anchor))
              /\ \A k \in PointKeys \ Supplied :
                    result[k] = VAdd(result["Start"], FromStart(k))

\* Start was derived from a supplied PI although a Center that contradicts it
\* was supplied too, and End was derived from that Start
C26_Witness ==
    /\ CoordinatesRan
    /\ outcome = "ok"
    /\ Supplied = {"PI", "Center"}
    /\ VAdd(points[2], FromStart("PI")) # VAdd(points[3], FromStart("Center"))
    /\ result["Start"] = VSub(points[3], FromStart("PI"))
    /\ result["End"] = VAdd(result["Start"], FromStart("End"))

\* ------------------------------------------------------------------------
\* C27 (as stated): get_scalar_matrix returns None whenever the product matrix
\* is not of the expected dimension (here: neither 6 x 6 nor 7 x 7), and the
\* resolution then ends by returning None, not by an exception or a descriptor
\* ------------------------------------------------------------------------
MatrixCalled == pc # "matrix" /\ Cardinality(DOMAIN vecs) >= 6

UnexpectedDimension == ProductShape(Cardinality(DOMAIN vecs))[1] \notin {6, 7}

C27_AsStated ==
    (MatrixCalled /\ UnexpectedDimension) =>
        /\ mat = NoMatrix
        /\ outcome # "raise"
        /\ Done => outcome = "None"

\* ------------------------------------------------------------------------
\* C28 (as stated): after import_file, result['Alignments'] holds one entry per
\* Alignment element of the file, each under a name of its own:
\* _get_alignment_name returns a name that is not a key yet, for a nameless
\* alignment and for a repeated name
\* ------------------------------------------------------------------------
C28_AsStated ==
    (Imported /\ imp.outcome = "result") =>
        Cardinality(DOMAIN imp.result) = Len(imp.file)

\* ------------------------------------------------------------------------
\* C29 (as stated): the dir attribute of a Line is assigned to both BearingIn
\* and BearingOut of the parsed line
\* ------------------------------------------------------------------------
\* the geometry list import_file returned for the n-th alignment of the file
GeometryOf(n) == imp.result[get_alignment_name(imp.file[n].attrib)]["geometry"]

C29_AsStated ==
    (Imported /\ imp.outcome = "result") =>
        \A n \in 1 .. Len(imp.file) : \A m \in 1 .. Len(imp.file[n].nodes) :
            (imp.file[n].nodes[m].tag = "Line" /\ "dir" \in DOMAIN imp.file[n].nodes[m].attrib)
                => /\ "BearingIn" \in DOMAIN GeometryOf(n)[m]
                   /\ "BearingOut" \in DOMAIN GeometryOf(n)[m]
                   /\ GeometryOf(n)[m]["BearingOut"] = GeometryOf(n)[m]["BearingIn"]

\* ------------------------------------------------------------------------
\* C30 (as stated): the sequence of angles get_points builds is strictly
\* increasing; in Segment mode with a positive integer n it holds exactly the n
\* angles k * Delta / n, k = 1 .. n; in Interval mode with Delta an exact
\* multiple of the step, Delta appears exactly once
\* ------------------------------------------------------------------------
TimesDelta(seq) == Cardinality({n \in 1 .. Len(seq) : seq[n] = disc.arc_dict["Delta"]})

C30_AsStated ==
    AnglesBuilt =>
        /\ \A n \in 1 .. (Len(disc.deltas) - 1) : Less(disc.deltas[n], disc.deltas[n + 1])
        /\ disc.interval_type = "Segment" =>
              /\ Len(disc.deltas) = Trunc(disc.interval)
              /\ \A k \in 1 .. Len(disc.deltas) :
                    disc.deltas[k] = Div(Mul(Whole(k), disc.arc_dict["Delta"]), disc.interval)
        /\ disc.interval_type = "Interval" => TimesDelta(disc.deltas) = 1

====
